---- MODULE Spec2Model ----
(***************************************************************************)
(* Parameter-resolution ladder and spectral synthesis loop of hapi.py.     *)
(*                                                                         *)
(* Numbers are integers.  The temperatures of the model (2 K and 296 K)    *)
(* divide every reference temperature they meet (50 K, 296 K), so the      *)
(* quotient T_ref/T of the power law is exact; diluent fractions are the   *)
(* integers 0 and 1 (valid) and -1 and 2 (invalid).  Column names are      *)
(* written in lower case: the line record is a CaselessDict.               *)
(***************************************************************************)
EXTENDS Integers, Sequences, FiniteSets, TLC

\* ------------------------------------------------------------------ bounds
MaxLines == 2

\* ----------------------------------------------------------------- helpers
EmptyDict == [x \in {} |-> 0]

RECURSIVE Pow(_, _)
Pow(b, n) == IF n <= 0 THEN 1 ELSE b * Pow(b, n - 1)

Abs(x) == IF x < 0 THEN 0 - x ELSE x

Max2(a, b) == IF a >= b THEN a ELSE b

Put(d, k, v) == (k :> v) @@ d

\* --------------------------------------- environment dependence functions
environDependenceFn_PowerLaw(Par_ref, TempRatioPower, T, T_ref, p, p_ref) ==
    (Par_ref * Pow(T_ref \div T, TempRatioPower) * p) \div p_ref

environDependenceFn_LinearLaw(Par_ref, Coef, T, T_ref, p, p_ref) ==
    ((Par_ref + Coef * (T - T_ref)) * p) \div p_ref

\* names of the keyword parameters of each dependence function
DepFuncParams(depfunc) ==
    CASE depfunc = "PowerLaw" -> {"Par_ref", "TempRatioPower", "T", "T_ref", "p", "p_ref"}
      [] depfunc = "LinearLaw" -> {"Par_ref", "Coef", "T", "T_ref", "p", "p_ref"}
      [] depfunc = "lambda" -> {"gamma0", "sd", "n", "T", "T_ref", "p", "p_ref"}

\* depfunc(**ARGS), the caller having checked the keywords
DepFuncValue(depfunc, A) ==
    CASE depfunc = "PowerLaw" ->
           environDependenceFn_PowerLaw(A["Par_ref"], A["TempRatioPower"],
                                        A["T"], A["T_ref"], A["p"], A["p_ref"])
      [] depfunc = "LinearLaw" ->
           environDependenceFn_LinearLaw(A["Par_ref"], A["Coef"],
                                         A["T"], A["T_ref"], A["p"], A["p_ref"])
      [] depfunc = "lambda" ->
           environDependenceFn_PowerLaw(A["gamma0"] * A["sd"], A["n"],
                                        A["T"], A["T_ref"], A["p"], A["p_ref"])

\* ------------------------------------------------------ argument selectors
Arg(a, n) == [abstract |-> a, name |-> n, hasdefault |-> FALSE, default |-> 0]

ArgD(a, n, d) == [abstract |-> a, name |-> n, hasdefault |-> TRUE, default |-> d]

\* variant: the ranges closed on the right
get_T_ref_closed(T) ==
    IF T >= 0 /\ T <= 100 THEN 50
    ELSE IF T > 100 /\ T <= 200 THEN 150
    ELSE IF T > 200 /\ T <= 400 THEN 296
    ELSE 700

get_T_ref_for_HT_multitemp(T) ==
    IF T >= 0 /\ T < 100 THEN 50
    ELSE IF T >= 100 /\ T < 200 THEN 150
    ELSE IF T >= 200 /\ T < 400 THEN 296
    ELSE 700

\* '%s_%d' % (broadener, T_ref)
Sfx(broadener, T_ref) == broadener \o "_" \o ToString(T_ref)

\* The T_ref and the lookup_cases of every environGetArguments_<family>_
\* <parameter>_<preset> function, for one broadener and one line context.
getargs(fn, b, TRANS) ==
    LET R == 296
        M == get_T_ref_for_HT_multitemp(TRANS["T"])
        one(T_ref, casename, args) ==
            [T_ref |-> T_ref, lookup_cases |-> << [case |-> casename, args |-> args] >>]
    IN CASE fn = "Lorentz_Gamma0_default" ->
              [T_ref |-> R, lookup_cases |-> <<
                 [case |-> "Lorentz 1",
                  args |-> << Arg("Par_ref", "gamma_" \o b),
                              Arg("TempRatioPower", "n_" \o b) >>],
                 [case |-> "Lorentz 2",
                  args |-> << Arg("Par_ref", "gamma_" \o b),
                              Arg("TempRatioPower", "n_air") >>] >>]
         [] fn = "Lorentz_Delta0_default" ->
              one(R, "Lorentz 1", << ArgD("Par_ref", "delta_" \o b, 0),
                                     ArgD("Coef", "deltap_" \o b, 0) >>)
         [] fn = "Lorentz_YRosen_default" ->
              one(R, "Lorentz 1", << ArgD("Par_ref", "y_" \o b, 0),
                                     ArgD("TempRatioPower", "n_y_" \o b, 0) >>)
         [] fn = "SDVoigt_Gamma0_default" ->
              one(R, "SDVoigt 1", << Arg("Par_ref", "gamma_sdv_0_" \o Sfx(b, R)),
                                     ArgD("TempRatioPower", "n_sdv_" \o Sfx(b, R), 0) >>)
         [] fn = "SDVoigt_Delta0_default" ->
              one(R, "SDVoigt 1", << Arg("Par_ref", "delta_sdv_0_" \o Sfx(b, R)),
                                     Arg("Coef", "deltap_sdv_" \o Sfx(b, R)) >>)
         [] fn = "SDVoigt_Gamma2_default" ->
              one(R, "SDVoigt 1", << Arg("Par_ref", "gamma_sdv_2_" \o Sfx(b, R)),
                                     ArgD("TempRatioPower", "n_gamma_sdv_2_" \o Sfx(b, R), 0) >>)
         [] fn = "SDVoigt_Gamma2_dimensionless" ->
              [T_ref |-> R, lookup_cases |-> <<
                 [case |-> "SDVoigt 1",
                  args |-> << Arg("gamma0", "gamma_" \o b),
                              Arg("sd", "sd_" \o b),
                              ArgD("n", "n_sd_" \o b, 0) >>],
                 [case |-> "SDVoigt 2",
                  args |-> << Arg("gamma0", "gamma_" \o b),
                              Arg("sd", "sd_" \o b),
                              ArgD("n", "n_sd_air", 0) >>] >>]
         [] fn = "SDVoigt_Delta2_default" ->
              one(R, "SDVoigt 1", << ArgD("Par_ref", "delta_sdv_2_" \o Sfx(b, R), 0),
                                     ArgD("Coef", "deltap_sdv_2_" \o Sfx(b, R), 0) >>)
         [] fn = "SDVoigt_YRosen_default" ->
              one(R, "Lorentz 1", << ArgD("Par_ref", "y_sdv_" \o Sfx(b, R), 0),
                                     ArgD("TempRatioPower", "n_y_sdv_" \o Sfx(b, R), 0) >>)
         [] fn = "HT_Gamma0_default" ->
              one(R, "HT 1", << Arg("Par_ref", "gamma_ht_0_" \o Sfx(b, R)),
                                ArgD("TempRatioPower", "n_ht_" \o Sfx(b, R), 0) >>)
         [] fn = "HT_Gamma0_multitemp" ->
              one(M, "HT 1", << Arg("Par_ref", "gamma_ht_0_" \o Sfx(b, M)),
                                ArgD("TempRatioPower", "n_ht_" \o Sfx(b, M), 0) >>)
         [] fn = "HT_Delta0_default" ->
              one(R, "HT 1", << Arg("Par_ref", "delta_ht_0_" \o Sfx(b, R)),
                                Arg("Coef", "deltap_ht_" \o Sfx(b, R)) >>)
         [] fn = "HT_Delta0_multitemp" ->
              one(M, "HT 1", << Arg("Par_ref", "delta_ht_0_" \o Sfx(b, M)),
                                Arg("Coef", "deltap_ht_" \o Sfx(b, M)) >>)
         [] fn = "HT_Gamma2_default" ->
              one(R, "HT 1", << Arg("Par_ref", "gamma_ht_2_" \o Sfx(b, R)),
                                ArgD("TempRatioPower", "n_gamma_ht_2_" \o Sfx(b, R), 0) >>)
         [] fn = "HT_Gamma2_multitemp" ->
              one(M, "HT 1", << Arg("Par_ref", "gamma_ht_2_" \o Sfx(b, M)),
                                ArgD("TempRatioPower", "n_gamma_ht_2_" \o Sfx(b, M), 0) >>)
         [] fn = "HT_Delta2_default" ->
              one(R, "HT 1", << ArgD("Par_ref", "delta_ht_2_" \o Sfx(b, R), 0),
                                ArgD("Coef", "deltap_ht_2_" \o Sfx(b, R), 0) >>)
         [] fn = "HT_Delta2_multitemp" ->
              one(M, "HT 1", << ArgD("Par_ref", "delta_ht_2_" \o Sfx(b, M), 0),
                                ArgD("Coef", "deltap_ht_2_" \o Sfx(b, M), 0) >>)
         [] fn = "HT_NuVC_default" ->
              one(R, "HT 1", << Arg("Par_ref", "nu_ht_" \o b),
                                ArgD("TempRatioPower", "kappa_ht_" \o b, 0) >>)
         [] fn = "HT_YRosen_default" ->
              one(R, "Lorentz 1", << ArgD("Par_ref", "y_ht_" \o Sfx(b, R), 0),
                                     ArgD("TempRatioPower", "n_y_ht_" \o Sfx(b, R), 0) >>)

\* registry: profile family -> parameter -> preset -> selector and law
PRESSURE_INDUCED_ENVDEP ==
    LET e(g, d) == [getargs |-> g, depfunc |-> d]
    IN [Lorentz |->
          [Gamma0 |-> [default |-> e("Lorentz_Gamma0_default", "PowerLaw")],
           Delta0 |-> [default |-> e("Lorentz_Delta0_default", "LinearLaw")],
           YRosen |-> [default |-> e("Lorentz_YRosen_default", "LinearLaw")]],
        Voigt |->
          [Gamma0 |-> [default |-> e("Lorentz_Gamma0_default", "PowerLaw")],
           Delta0 |-> [default |-> e("Lorentz_Delta0_default", "LinearLaw")],
           YRosen |-> [default |-> e("Lorentz_YRosen_default", "PowerLaw")]],
        SDVoigt |->
          [Gamma0 |-> [default |-> e("SDVoigt_Gamma0_default", "PowerLaw")],
           Delta0 |-> [default |-> e("SDVoigt_Delta0_default", "LinearLaw")],
           Gamma2 |-> [default |-> e("SDVoigt_Gamma2_default", "PowerLaw"),
                       dimensionless |-> e("SDVoigt_Gamma2_dimensionless", "lambda")],
           Delta2 |-> [default |-> e("SDVoigt_Delta2_default", "LinearLaw")],
           YRosen |-> [default |-> e("SDVoigt_YRosen_default", "PowerLaw")]],
        HT |->
          [Gamma0 |-> [default |-> e("HT_Gamma0_default", "PowerLaw"),
                       multitemp |-> e("HT_Gamma0_multitemp", "PowerLaw")],
           Delta0 |-> [default |-> e("HT_Delta0_default", "LinearLaw"),
                       multitemp |-> e("HT_Delta0_multitemp", "LinearLaw")],
           Gamma2 |-> [default |-> e("HT_Gamma2_default", "PowerLaw"),
                       multitemp |-> e("HT_Gamma2_multitemp", "PowerLaw")],
           Delta2 |-> [default |-> e("HT_Delta2_default", "LinearLaw"),
                       multitemp |-> e("HT_Delta2_multitemp", "LinearLaw")],
           NuVC |-> [default |-> e("HT_NuVC_default", "PowerLaw")],
           YRosen |-> [default |-> e("HT_YRosen_default", "PowerLaw")]]]

\* PRESSURE_INDUCED_ENVDEP[profile][parname][envdep] raises no KeyError
HasKeys(registry, profile, parname, envdep) ==
    /\ profile \in DOMAIN registry
    /\ parname \in DOMAIN registry[profile]
    /\ envdep \in DOMAIN registry[profile][parname]

HasPreset(profile, parname, envdep) ==
    HasKeys(PRESSURE_INDUCED_ENVDEP, profile, parname, envdep)

\* ------------------------------------------------------- environGetArguments
\* The arguments of one CASE, in turn.  acc carries ARGS (the aux_args
\* dict itself, which the code updates in place), INFO, params_not_found
\* and flag.  abscoef_debug is VARIABLES['abscoef_debug'].
\* np.ma.masked, the value a masked column holds in a row: a number outside
\* the values of the catalogue
masked == -1

\* np.ma.core.MaskedConstant, the class of np.ma.masked: an object that is
\* not np.ma.masked and that no row holds
MaskedConstant == -2

RECURSIVE CaseArgs(_, _, _, _, _)
CaseArgs(Case, k, TRANS, abscoef_debug, acc) ==
    IF k > Len(Case.args) THEN acc
    ELSE LET a == Case.args[k]
             absent == a.name \notin DOMAIN TRANS \/ TRANS[a.name] = MaskedConstant
             found == ~absent \/ a.hasdefault
             source == IF absent THEN "<default>" ELSE a.name
             value == IF absent THEN a.default ELSE TRANS[a.name]
         IN CaseArgs(Case, k + 1, TRANS, abscoef_debug,
              IF found
              THEN [acc EXCEPT
                      !.ARGS = Put(@, a.abstract, value),
                      !.INFO = IF abscoef_debug
                               THEN Put(@, a.abstract,
                                        [case |-> Case.case, source |-> source, value |-> value])
                               ELSE @]
              ELSE [acc EXCEPT
                      !.params_not_found = Append(@, a.name),
                      !.flag = TRUE])

RECURSIVE environGetArgumentsFrom(_, _, _, _, _, _)
\* after the arguments of case i: return, or go on with the next case
AfterCase(lookup_cases, i, r, TRANS, abscoef_debug) ==
    IF ~r.flag
    THEN [ok |-> TRUE, ARGS |-> r.ARGS, INFO |-> r.INFO,
          params_not_found |-> r.params_not_found]
    ELSE environGetArgumentsFrom(lookup_cases, i + 1, r.ARGS, r.params_not_found,
                                 TRANS, abscoef_debug)

environGetArgumentsFrom(lookup_cases, i, ARGS, params_not_found, TRANS, abscoef_debug) ==
    IF i > Len(lookup_cases)
    THEN [ok |-> FALSE, ARGS |-> ARGS, INFO |-> EmptyDict,
          params_not_found |-> params_not_found]
    ELSE AfterCase(lookup_cases, i,
                   CaseArgs(lookup_cases[i], 1, TRANS, abscoef_debug,
                            [ARGS |-> ARGS, INFO |-> EmptyDict,
                             params_not_found |-> params_not_found, flag |-> FALSE]),
                   TRANS, abscoef_debug)

\* ok = FALSE stands for raise Exception('not found in DB: %s' % params_not_found)
environGetArguments(lookup_cases, aux_args, TRANS, abscoef_debug) ==
    environGetArgumentsFrom(lookup_cases, 1, aux_args, << >>, TRANS, abscoef_debug)

\* PRESSURE_INDUCED_ENVDEP[profile][parname][envdep]['getargs'](species, TRANS)
\* the body of a selector g: aux_args and the call of environGetArguments
Selector(g, TRANS, abscoef_debug) ==
    environGetArguments(g.lookup_cases,
                        [T |-> TRANS["T"], T_ref |-> g.T_ref, p |-> TRANS["p"], p_ref |-> 1],
                        TRANS, abscoef_debug)

CallGetArgs(profile, parname, envdep, species, TRANS, abscoef_debug) ==
    Selector(getargs(PRESSURE_INDUCED_ENVDEP[profile][parname][envdep].getargs,
                     species, TRANS),
             TRANS, abscoef_debug)

\* ------------------------------------------------------------------ ladder
NoStatus == [exc |-> "", names |-> << >>]

\* Candidates i.. of envdep_presets.  Any exception of a candidate (the
\* registry KeyError, the selector's 'not found in DB', the TypeError of
\* depfunc(**ARGS)) is caught and recorded in INFO['status'].  winner is the
\* position of the candidate that returned (0: none), tried the number of
\* candidates evaluated.
RECURSIVE ladderFrom(_, _, _, _, _, _, _)
\* candidate i with what its selector handed back (got) and its law
TryCandidate(parname, species, envdep_presets, TRANS, abscoef_debug, i, INFO, got, depfunc) ==
    IF ~got.ok
    THEN ladderFrom(parname, species, envdep_presets, TRANS, abscoef_debug, i + 1,
                    [INFO EXCEPT !.status =
                       [exc |-> "Exception", names |-> got.params_not_found]])
    ELSE IF DOMAIN got.ARGS # DepFuncParams(depfunc)
    THEN ladderFrom(parname, species, envdep_presets, TRANS, abscoef_debug, i + 1,
                    [args |-> got.INFO, status |-> [exc |-> "TypeError", names |-> << >>]])
    ELSE [INFO |-> [args |-> got.INFO, status |-> NoStatus],
          value |-> DepFuncValue(depfunc, got.ARGS),
          winner |-> i, tried |-> i]

\* the registry entry of a candidate
Preset(profile, parname, envdep) == PRESSURE_INDUCED_ENVDEP[profile][parname][envdep]

ladderFrom(parname, species, envdep_presets, TRANS, abscoef_debug, i, INFO) ==
    IF i > Len(envdep_presets)
    THEN [INFO |-> INFO, value |-> 0, winner |-> 0, tried |-> Len(envdep_presets)]
    ELSE IF ~HasPreset(envdep_presets[i][1], parname, envdep_presets[i][2])
    THEN ladderFrom(parname, species, envdep_presets, TRANS, abscoef_debug, i + 1,
                    [INFO EXCEPT !.status = [exc |-> "KeyError", names |-> << >>]])
    ELSE TryCandidate(parname, species, envdep_presets, TRANS, abscoef_debug, i, INFO,
                      CallGetArgs(envdep_presets[i][1], parname, envdep_presets[i][2],
                                  species, TRANS, abscoef_debug),
                      Preset(envdep_presets[i][1], parname, envdep_presets[i][2]).depfunc)

\* mutant: INFO['status'] is dropped at the end of the list
ladder_no_status(parname, species, envdep_presets, TRANS, abscoef_debug) ==
    LET l == ladderFrom(parname, species, envdep_presets, TRANS, abscoef_debug, 1,
                        [args |-> EmptyDict, status |-> NoStatus])
    IN IF l.winner = 0 THEN [l EXCEPT !.INFO.status = NoStatus] ELSE l

ladder(parname, species, envdep_presets, TRANS, abscoef_debug) ==
    ladderFrom(parname, species, envdep_presets, TRANS, abscoef_debug, 1,
               [args |-> EmptyDict, status |-> NoStatus])

\* ------------------------------------------------- parameter calculation
\* CALC_INFO is None (isdict = FALSE) or a dict of entries; an entry keeps
\* which of the keys 'value', 'status', 'mixture' it has.
CalcInfoNone == [isdict |-> FALSE, d |-> EmptyDict]

CalcInfoDict == [isdict |-> TRUE, d |-> EmptyDict]

Entry(keys, value, status, mixture) ==
    [keys |-> keys, value |-> value, status |-> status, mixture |-> mixture]

SetInfo(CALC_INFO, name, entry) ==
    IF CALC_INFO.isdict THEN [CALC_INFO EXCEPT !.d = Put(@, name, entry)] ELSE CALC_INFO

\* what a calculate_parameter_* function hands back: exc is "" or the name
\* of the exception it raised; calls lists the ladder calls it made
Ret(exc, value, CALC_INFO, calls) ==
    [exc |-> exc, value |-> value, CALC_INFO |-> CALC_INFO, calls |-> calls]

\* the species loop of calculate_parameter_PI from position i on; Diluent is
\* the dict as the sequence of its (species, abun) items
RECURSIVE PI_loop(_, _, _, _, _, _, _, _)
\* species i with what the ladder handed back for it (l)
PI_species(parname, envdep_presets, TRANS, abscoef_debug, i, parval, mixture, calls, d, l) ==
    PI_loop(parname, envdep_presets, TRANS, abscoef_debug, i + 1,
            parval + d.abun * l.value,
            Put(mixture, d.species, [args |-> l.INFO, value |-> l.value]),
            Append(calls, [parname |-> parname, species |-> d.species,
                           presets |-> envdep_presets, winner |-> l.winner,
                           tried |-> l.tried, value |-> l.value,
                           status |-> l.INFO.status]))

PI_loop(parname, envdep_presets, TRANS, abscoef_debug, i, parval, mixture, calls) ==
    IF i > Len(TRANS["Diluent"])
    THEN [parval |-> parval, mixture |-> mixture, calls |-> calls]
    ELSE PI_species(parname, envdep_presets, TRANS, abscoef_debug, i, parval, mixture,
                    calls, TRANS["Diluent"][i],
                    ladder(parname, TRANS["Diluent"][i].species, envdep_presets, TRANS,
                           abscoef_debug))

\* mutant: the mixture fractions are left out of the sum
calculate_parameter_PI_unweighted(parname, envdep_presets, TRANS, CALC_INFO, abscoef_debug) ==
    LET one == [s \in 1..Len(TRANS["Diluent"]) |->
                  [species |-> TRANS["Diluent"][s].species, abun |-> 1]]
        r == PI_loop(parname, envdep_presets, Put(TRANS, "Diluent", one),
                     abscoef_debug, 1, 0, EmptyDict, << >>)
    IN Ret("", r.parval, CALC_INFO, r.calls)

\* mutant: a species none of whose candidates resolves is an exception
calculate_parameter_PI_raising(parname, envdep_presets, TRANS, CALC_INFO, abscoef_debug) ==
    LET r == PI_loop(parname, envdep_presets, TRANS, abscoef_debug, 1, 0,
                     EmptyDict, << >>)
    IN IF \E k \in 1..Len(r.calls) : r.calls[k].winner = 0
       THEN Ret("Exception", 0, CALC_INFO, r.calls)
       ELSE Ret("", r.parval, CALC_INFO, r.calls)

\* the end of calculate_parameter_PI, r being what the species loop left
PI_return(parname, CALC_INFO, r) ==
    Ret("", r.parval,
        SetInfo(CALC_INFO, parname,
                Entry({"mixture", "status", "value"}, r.parval, "ok", r.mixture)),
        r.calls)

calculate_parameter_PI(parname, envdep_presets, TRANS, CALC_INFO, abscoef_debug) ==
    PI_return(parname, CALC_INFO,
              PI_loop(parname, envdep_presets, TRANS, abscoef_debug, 1, 0, EmptyDict,
                      << >>))

Generic(value) == Entry({"value", "mixture"}, value, "", [generic |-> [args |-> EmptyDict]])

\* writes its trace under the key 'GammaD'
calculate_parameter_Nu(TRANS, CALC_INFO) ==
    Ret("", TRANS["nu"], SetInfo(CALC_INFO, "GammaD", Generic(TRANS["nu"])), << >>)

\* natural abundance of the isotopologue (ISO table), in the unit the
\* Components abundances are counted in
abundance(M, I) == 1

\* PYTIPS, the partition sum: a stand-in that grows with T
partitionFunction(M, I, T) == T

\* Stand-in for exp(-c2*E/T)*(1-exp(-c2*nu/T)): its value for a vanishing
\* lower-state energy and a saturated stimulated-emission term.
BoltzmannTerm(LowerStateEnergy, LineCenter, T) == 1

EnvironmentDependency_Intensity(LineIntensityRef, T, Tref, SigmaT, SigmaTref, LowerStateEnergy, LineCenter) ==
    LET ch == BoltzmannTerm(LowerStateEnergy, LineCenter, T)
        zn == BoltzmannTerm(LowerStateEnergy, LineCenter, Tref)
    IN (LineIntensityRef * SigmaTref * ch) \div (SigmaT * zn)

Sw_calc(TRANS) ==
    LET MI == << TRANS["molec_id"], TRANS["local_iso_id"] >>
        Sw0 == EnvironmentDependency_Intensity(TRANS["sw"], TRANS["T"], TRANS["T_ref"],
                   TRANS["SigmaT"], TRANS["SigmaT_ref"], TRANS["elower"], TRANS["nu"])
    IN IF "Abundances" \in DOMAIN TRANS
       THEN (Sw0 * TRANS["Abundances"][MI]) \div abundance(MI[1], MI[2])
       ELSE Sw0

calculate_parameter_Sw(TRANS, CALC_INFO) ==
    Ret("", Sw_calc(TRANS), SetInfo(CALC_INFO, "Sw", Generic(Sw_calc(TRANS))), << >>)

Isqrt(n) == CHOOSE k \in 0..n : k * k <= n /\ (k + 1) * (k + 1) > n

\* Doppler HWHM sqrt(2*k*T*ln2/m)/c * nu in the integer unit of the model:
\* one hundredth of sqrt(T)*nu, rounded up (a line at nu > 0 has a width > 0)
GammaD_calc(TRANS) == (TRANS["nu"] * Isqrt(TRANS["T"]) + 99) \div 100

calculate_parameter_GammaD(TRANS, CALC_INFO) ==
    Ret("", GammaD_calc(TRANS), SetInfo(CALC_INFO, "GammaD", Generic(GammaD_calc(TRANS))), << >>)

HasValue(CALC_INFO, name) == name \in DOMAIN CALC_INFO.d /\ "value" \in CALC_INFO.d[name].keys

HasMixture(CALC_INFO, name, species) ==
    /\ name \in DOMAIN CALC_INFO.d
    /\ "mixture" \in CALC_INFO.d[name].keys
    /\ species \in DOMAIN CALC_INFO.d[name].mixture

\* Without a CALC_INFO dict: 0.  With one: the reads of CALC_INFO raise
\* KeyError where the entry, its 'value' or its 'mixture' are missing, and
\* the first species reaches the undefined name Gamma0 (NameError).
calculate_parameter_Eta(TRANS, CALC_INFO) ==
    LET Diluent == TRANS["Diluent"]
        C1 == SetInfo(CALC_INFO, "Eta", Entry({"mixture"}, 0, "", EmptyDict))
    IN IF ~CALC_INFO.isdict THEN Ret("", 0, CALC_INFO, << >>)
       ELSE IF ~HasValue(C1, "Gamma2") \/ ~HasValue(C1, "Delta2")
       THEN Ret("KeyError", 0, C1, << >>)
       ELSE IF Len(Diluent) = 0 THEN Ret("", 0, C1, << >>)
       ELSE IF \/ ~HasMixture(C1, "Gamma2", Diluent[1].species)
               \/ ~HasMixture(C1, "Delta2", Diluent[1].species)
       THEN Ret("KeyError", 0, C1, << >>)
       ELSE Ret("NameError", 0, C1, << >>)

\* Without a CALC_INFO dict: 0.  With one: KeyError where Gamma0, Delta0 or
\* Eta carry no 'value', else the undefined name Shift0 (NameError).
calculate_parameter_NuVC(TRANS, CALC_INFO) ==
    LET C1 == SetInfo(CALC_INFO, "NuVC", Entry({"mixture"}, 0, "", EmptyDict))
    IN IF ~CALC_INFO.isdict THEN Ret("", 0, CALC_INFO, << >>)
       ELSE IF ~HasValue(C1, "Gamma0") \/ ~HasValue(C1, "Delta0") \/ ~HasValue(C1, "Eta")
       THEN Ret("KeyError", 0, C1, << >>)
       ELSE Ret("NameError", 0, C1, << >>)

\* pfunc(envdep_presets, TRANS=TRANS, CALC_INFO=CALC_INFO)
CallPfunc(pname, envdep_presets, TRANS, CALC_INFO, abscoef_debug) ==
    CASE pname = "Nu" -> calculate_parameter_Nu(TRANS, CALC_INFO)
      [] pname = "Sw" -> calculate_parameter_Sw(TRANS, CALC_INFO)
      [] pname = "GammaD" -> calculate_parameter_GammaD(TRANS, CALC_INFO)
      [] pname = "Eta" -> calculate_parameter_Eta(TRANS, CALC_INFO)
      [] pname = "NuVC" -> calculate_parameter_NuVC(TRANS, CALC_INFO)
      [] pname \in {"Gamma0", "Delta0", "Gamma2", "Delta2", "YRosen"} ->
           calculate_parameter_PI(pname, envdep_presets, TRANS, CALC_INFO, abscoef_debug)

\* the loop of calculateProfileParameters from position i on; it ends at the
\* first exception
RECURSIVE calculateProfileParametersFrom(_, _, _, _, _, _, _)
\* PARAMS[pname] = pfunc(...), r being what pfunc handed back
AfterPfunc(acc, pname, r) ==
    [exc |-> r.exc,
     PARAMS |-> IF r.exc = "" THEN Put(acc.PARAMS, pname, r.value) ELSE acc.PARAMS,
     order |-> Append(acc.order, pname),
     CALC_INFO |-> r.CALC_INFO,
     calls |-> acc.calls \o r.calls]

\* the parameter is in exclude: 0, and an 'excluded' entry in CALC_INFO
Excluded(acc, pname) ==
    [acc EXCEPT
       !.PARAMS = Put(@, pname, 0),
       !.order = Append(@, pname),
       !.CALC_INFO = SetInfo(@, pname, Entry({"value", "status"}, 0, "excluded", EmptyDict))]

calculateProfileParametersFrom(envdep_presets, parameters, TRANS, exclude, abscoef_debug, i, acc) ==
    IF i > Len(parameters) \/ acc.exc # "" THEN acc
    ELSE calculateProfileParametersFrom(envdep_presets, parameters, TRANS, exclude,
           abscoef_debug, i + 1,
           IF exclude # {} /\ parameters[i] \in exclude
           THEN Excluded(acc, parameters[i])
           ELSE AfterPfunc(acc, parameters[i],
                           CallPfunc(parameters[i], envdep_presets, TRANS, acc.CALC_INFO,
                                     abscoef_debug)))

\* variant: the exclude set is not consulted
calculateProfileParameters_all(envdep_presets, parameters, TRANS, CALC_INFO, exclude, abscoef_debug) ==
    calculateProfileParametersFrom(envdep_presets, parameters, TRANS, {},
        abscoef_debug, 1,
        [exc |-> "", PARAMS |-> EmptyDict, order |-> << >>, CALC_INFO |-> CALC_INFO,
         calls |-> << >>])

calculateProfileParameters(envdep_presets, parameters, TRANS, CALC_INFO, exclude, abscoef_debug) ==
    calculateProfileParametersFrom(envdep_presets, parameters, TRANS, exclude,
        abscoef_debug, 1,
        [exc |-> "", PARAMS |-> EmptyDict, order |-> << >>, CALC_INFO |-> CALC_INFO,
         calls |-> << >>])

\* variant: the HT list ends before ('Voigt', 'default')
PresetsOf_HT_only(calcpars) ==
    CASE calcpars = "Doppler" -> << <<"Doppler", "default">> >>
      [] calcpars = "Lorentz" -> << <<"Lorentz", "default">> >>
      [] calcpars = "Voigt" -> << <<"Voigt", "default">> >>
      [] calcpars = "SDVoigt" -> << <<"SDVoigt", "default">>, <<"SDVoigt", "dimensionless">>,
                                    <<"Voigt", "default">> >>
      [] calcpars = "HT" -> << <<"HT", "multitemp">>, <<"HT", "default">> >>
      [] calcpars = "FullPriority" -> << <<"HT", "multitemp">>, <<"HT", "default">>,
                                         <<"SDVoigt", "default">>, <<"Voigt", "default">> >>

\* the envdep_presets and the parameters of each calculateProfileParameters<X>
PresetsOf(calcpars) ==
    CASE calcpars = "Doppler" -> << <<"Doppler", "default">> >>
      [] calcpars = "Lorentz" -> << <<"Lorentz", "default">> >>
      [] calcpars = "Voigt" -> << <<"Voigt", "default">> >>
      [] calcpars = "SDVoigt" -> << <<"SDVoigt", "default">>, <<"SDVoigt", "dimensionless">>,
                                    <<"Voigt", "default">> >>
      [] calcpars = "HT" -> << <<"HT", "multitemp">>, <<"HT", "default">>,
                               <<"Voigt", "default">> >>
      [] calcpars = "FullPriority" -> << <<"HT", "multitemp">>, <<"HT", "default">>,
                                         <<"SDVoigt", "default">>, <<"Voigt", "default">> >>

ParametersOf(calcpars) ==
    CASE calcpars = "Doppler" -> << "Nu", "Sw", "GammaD" >>
      [] calcpars = "Lorentz" -> << "Nu", "Sw", "Gamma0", "Delta0", "YRosen" >>
      [] calcpars = "Voigt" -> << "Nu", "Sw", "GammaD", "Gamma0", "Delta0", "YRosen" >>
      [] calcpars = "SDVoigt" -> << "Nu", "Sw", "GammaD", "Gamma0", "Delta0", "Gamma2",
                                    "Delta2", "YRosen" >>
      [] calcpars \in {"HT", "FullPriority"} ->
           << "Nu", "Sw", "GammaD", "Gamma0", "Delta0", "Gamma2", "Delta2", "Eta",
              "NuVC", "YRosen" >>

\* calcpars(TRANS=TRANS, CALC_INFO=CALC_INFO, exclude=exclude)
CallCalcpars(calcpars, TRANS, CALC_INFO, exclude, abscoef_debug) ==
    calculateProfileParameters(PresetsOf(calcpars), ParametersOf(calcpars), TRANS,
                               CALC_INFO, exclude, abscoef_debug)

\* ----------------------------------------------------------------- profiles
\* A profile value at one grid point: v, and nan where the floating-point
\* expression of the code divides by zero.
Val(v, nan) == [v |-> v, nan |-> nan]

\* Stand-in for the real part pcqsdhc(...)[0] at the grid point sg, scaled by
\* 1000: the complex line shape is outside integer arithmetic, the model keeps
\* which value arrives at which position.  GamD = 0 makes cte infinite.
pcqsdhc(sg0, GamD, Gam0, Gam2, Shift0, Shift2, anuVC, eta, sg, Ylm) ==
    LET d == sg - sg0 + Shift0 + 2 * Shift2
    IN Val((1000 * (1 + GamD + 2 * Gam0 + 3 * Gam2 + 5 * anuVC + 7 * eta))
              \div (1 + d * d) + Ylm * (sg - sg0),
           GamD = 0)

\* The array side of pcqsdhc.  A grid is given by what the magnitude tests of
\* the code find at each of its points.
\* PART1 (c2t = 0): Z1 is the sequence of |Z1|; the formula Bterm_GLOBAL is
\* left with at each point.  Each of the two assignments writes the whole
\* array.
pcqsdhc_Bterm(Z1) ==
    LET index_Z1 == [k \in 1..Len(Z1) |-> Z1[k] <= 4000]
        B0 == [k \in 1..Len(Z1) |-> "zeros"]
        B1 == IF \E k \in 1..Len(Z1) : index_Z1[k]
              THEN [k \in 1..Len(Z1) |-> "direct"] ELSE B0
    IN IF \E k \in 1..Len(Z1) : ~index_Z1[k]
       THEN [k \in 1..Len(Z1) |-> "asymptotic"] ELSE B1

\* what pcqsdhc hands back: the exception raised ("" if none) and the
\* lengths of the two arrays
Shape(exc, n) == [exc |-> exc, re |-> IF exc = "" THEN n ELSE 0,
                  im |-> IF exc = "" THEN n ELSE 0]

CountOf(X, L) == Cardinality({k \in 1..Len(X) : X[k] \in L})

\* PART3 for a grid of n points, m3 of them in the mask index_PART3, a of
\* these in index_ABS; Aterm = zeros(len(index_PART3)) has n entries and
\* sqrt(X), WRb, WIb are taken on the whole grid.  bound tells whether WR1
\* was assigned by PART4; lenient tells whether the numpy at hand accepts a
\* boolean index shorter than the array (older releases) or raises
\* IndexError.
pcqsdhc_PART3(n, m3, a, bound, lenient) ==
    IF m3 = 0 THEN Shape("", n)
    ELSE IF a > 0
    THEN IF a # n /\ a # 1 THEN Shape("ValueError", n)
         ELSE IF a # n THEN Shape(IF m3 # n /\ ~lenient THEN "IndexError" ELSE "ValueError", n)
         ELSE Shape("", n)
    ELSE IF m3 # n /\ ~lenient THEN Shape("IndexError", n)
    ELSE IF ~bound THEN Shape("NameError", n)
    ELSE Shape("", n)

\* PART2, PART3 and PART4 (c2t # 0): X is, for each grid point, "small" for
\* abs(X) <= 3e-8*abs(Y), "large_near" and "large_far" for abs(Y) <=
\* 1e-15*abs(X) with abs(sqrt(X)) <= 4e3 and above it, "mid" otherwise.
\* In PART4 WR1_PART4 = zeros(len(index_PART4)) has n entries and is indexed
\* by masks of as many entries as index_PART4 counts.
pcqsdhc_parts(X, lenient) ==
    LET n == Len(X)
        m4 == CountOf(X, {"mid"})
        m3 == CountOf(X, {"large_near", "large_far"})
        a == CountOf(X, {"large_near"})
    IN IF m4 > 0 /\ m4 # n
       THEN Shape(IF lenient THEN "ValueError" ELSE "IndexError", n)
       ELSE pcqsdhc_PART3(n, m3, a, m4 > 0, lenient)

Scale(Sw, r) == Val(Sw * r.v, r.nan)

PROFILE_HT(P, g) ==
    Scale(P["Sw"], pcqsdhc(P["Nu"], P["GammaD"], P["Gamma0"], P["Gamma2"], P["Delta0"],
                           P["Delta2"], P["NuVC"], P["Eta"], g, P["YRosen"]))

PROFILE_SDRAUTIAN(P, g) ==
    Scale(P["Sw"], pcqsdhc(P["Nu"], P["GammaD"], P["Gamma0"], P["Gamma2"], P["Delta0"],
                           P["Delta2"], P["NuVC"], 0, g, P["YRosen"]))

PROFILE_SDVOIGT(P, g) ==
    Scale(P["Sw"], pcqsdhc(P["Nu"], P["GammaD"], P["Gamma0"], P["Gamma2"], P["Delta0"],
                           P["Delta2"], 0, 0, g, P["YRosen"]))

\* variant: GammaD and Gamma0 in each other's position
PROFILE_VOIGT_swapped(P, g) ==
    Scale(P["Sw"], pcqsdhc(P["Nu"], P["Gamma0"], P["GammaD"], 0, P["Delta0"], 0, 0, 0,
                           g, P["YRosen"]))

PROFILE_VOIGT(P, g) ==
    Scale(P["Sw"], pcqsdhc(P["Nu"], P["GammaD"], P["Gamma0"], 0, P["Delta0"], 0, 0, 0,
                           g, P["YRosen"]))

\* Sw*(Gamma0 + YRosen*d)/(pi*(Gamma0**2 + d**2)), scaled by 1000, pi as 3
PROFILE_LORENTZ(P, g) ==
    LET d == g + P["Delta0"] - P["Nu"]
        den == 3 * (P["Gamma0"] * P["Gamma0"] + d * d)
        num == IF P["YRosen"] = 0 THEN 1000 * P["Sw"] * P["Gamma0"]
               ELSE 1000 * P["Sw"] * (P["Gamma0"] + P["YRosen"] * d)
    IN IF den = 0 THEN Val(0, TRUE) ELSE Val(num \div den, FALSE)

\* Sw*sqrt(ln2/pi)*exp(-ln2*(d/GammaD)**2)/GammaD, scaled by 1000: a stand-in
\* that falls with |d|/GammaD
PROFILE_DOPPLER(P, g) ==
    LET d == g - P["Nu"]
    IN IF P["GammaD"] = 0 THEN Val(0, TRUE)
       ELSE Val((1000 * P["Sw"] * P["GammaD"]) \div (P["GammaD"] * P["GammaD"] + d * d), FALSE)

\* keyword parameters of each profile: all of them, and those without default
ProfileParams(profile) ==
    CASE profile = "PROFILE_HT" ->
           {"Nu", "GammaD", "Gamma0", "Gamma2", "Delta0", "Delta2", "NuVC", "Eta",
            "WnGrid", "YRosen", "Sw"}
      [] profile = "PROFILE_SDRAUTIAN" ->
           {"Nu", "GammaD", "Gamma0", "Gamma2", "Delta0", "Delta2", "NuVC",
            "WnGrid", "YRosen", "Sw"}
      [] profile = "PROFILE_RAUTIAN" ->
           {"Nu", "GammaD", "Gamma0", "Delta0", "NuVC", "WnGrid", "Ylm", "Sw"}
      [] profile = "PROFILE_SDVOIGT" ->
           {"Nu", "GammaD", "Gamma0", "Gamma2", "Delta0", "Delta2", "WnGrid", "YRosen", "Sw"}
      [] profile = "PROFILE_VOIGT" ->
           {"Nu", "GammaD", "Gamma0", "Delta0", "WnGrid", "YRosen", "Sw"}
      [] profile = "PROFILE_LORENTZ" -> {"Nu", "Gamma0", "Delta0", "WnGrid", "YRosen", "Sw"}
      [] profile = "PROFILE_DOPPLER" -> {"Nu", "GammaD", "WnGrid", "Sw"}

ProfileRequired(profile) == ProfileParams(profile) \ {"YRosen", "Ylm", "Sw"}

\* the defaults YRosen=0.0, Sw=1.0 of the profile signatures
WithDefaults(P) == P @@ [YRosen |-> 0, Sw |-> 1]

ProfileAt(profile, P, g) ==
    CASE profile = "PROFILE_HT" -> PROFILE_HT(P, g)
      [] profile = "PROFILE_SDRAUTIAN" -> PROFILE_SDRAUTIAN(P, g)
      [] profile = "PROFILE_SDVOIGT" -> PROFILE_SDVOIGT(P, g)
      [] profile = "PROFILE_VOIGT" -> PROFILE_VOIGT(P, g)
      [] profile = "PROFILE_LORENTZ" -> PROFILE_LORENTZ(P, g)
      [] profile = "PROFILE_DOPPLER" -> PROFILE_DOPPLER(P, g)

\* lineshape_vals = profile(**PARAMETERS): TypeError for a keyword the
\* profile does not take or a required one it does not get; PROFILE_RAUTIAN
\* reads the undefined name YRosen
CallProfile(profile, PARAMETERS) ==
    LET W == PARAMETERS["WnGrid"]
    IN IF ~(DOMAIN PARAMETERS \subseteq ProfileParams(profile))
          \/ ~(ProfileRequired(profile) \subseteq DOMAIN PARAMETERS)
       THEN [exc |-> "TypeError", vals |-> << >>]
       ELSE IF profile = "PROFILE_RAUTIAN" THEN [exc |-> "NameError", vals |-> << >>]
       ELSE [exc |-> "",
             vals |-> [k \in 1..Len(W) |-> ProfileAt(profile, WithDefaults(PARAMETERS), W[k])]]

\* (p/9.869233e-7)/(cBolts*T) in the unit in which it is 1 at 296 K and 1 atm
volumeConcentration(p, T) == (296 * p) \div T

\* -------------------------------------------------------------------- grids
\* bisect.bisect (bisect_right): the insertion point after every entry <= x,
\* as a 0-based index into the ascending sequence a
RECURSIVE bisect_search(_, _, _, _)
bisect_search(a, x, lo, hi) ==
    IF lo >= hi THEN lo
    ELSE LET mid == (lo + hi) \div 2
         IN IF x < a[mid + 1] THEN bisect_search(a, x, lo, mid)
            ELSE bisect_search(a, x, mid + 1, hi)

\* variant: the insertion point counted from the end of the grid
bisect_from_end(a, x) == Len(a) - bisect_search(a, x, 0, Len(a))

bisect(a, x) == bisect_search(a, x, 0, Len(a))

npsort(a) == SortSeq(a, LAMBDA x, y : x < y)

\* floor((upper-lower)/step) in floating point: where the exact quotient is a
\* whole number the rounded quotient may fall just below it, and the floor is
\* then one less (down)
floor_quotient(a, b, down) == IF down /\ a % b = 0 THEN (a \div b) - 1 ELSE a \div b

\* variant: without the end-point correction
arange_nofix(lower, upper, step, down) ==
    [k \in 1..(floor_quotient(upper - lower, step, down) + 1) |-> lower + step * (k - 1)]

\* arange_ on integers: the tolerance 1e-10 is below the unit, so the
\* end-point correction applies when upper-upper_new equals step
arange_rounded(lower, upper, step, down) ==
    LET npnt0 == floor_quotient(upper - lower, step, down) + 1
        upper0 == lower + step * (npnt0 - 1)
        fix == Abs((upper - upper0) - step) < 1
        npnt == IF fix THEN npnt0 + 1 ELSE npnt0
    IN [k \in 1..npnt |-> lower + step * (k - 1)]

\* the grid does not depend on the rounding (C21), so the call keeps one
arange_(lower, upper, step) == arange_rounded(lower, upper, step, FALSE)

\* ------------------------------------------------------------------ inputs
None == [given |-> FALSE, v |-> 0]

Some(x) == [given |-> TRUE, v |-> x]

NoneSet == [given |-> FALSE, v |-> {}]

NoneSeq == [given |-> FALSE, v |-> << >>]

Columns(extra) ==
    extra @@ [molec_id |-> 1, local_iso_id |-> 1, elower |-> 0, ierr |-> 0]

\* a line with the standard Voigt columns
LineVoigt ==
    Columns([nu |-> 10, sw |-> 3, gamma_air |-> 2, n_air |-> 1, delta_air |-> 1,
             gamma_self |-> 3, y_air |-> 1])

\* a line with the HT columns at 296 K and at 50 K besides the Voigt ones
LineHT ==
    Columns([nu |-> 20, sw |-> 2, gamma_air |-> 1, n_air |-> 0,
             gamma_ht_0_air_296 |-> 4, n_ht_air_296 |-> 1, gamma_ht_0_air_50 |-> 3,
             delta_ht_0_air_296 |-> 1, deltap_ht_air_296 |-> 0,
             gamma_ht_2_air_296 |-> 1, gamma_ht_2_air_50 |-> 2,
             gamma_sdv_0_air_296 |-> 2, sd_air |-> 1, eta_ht_air |-> 1])

\* a line without any broadening column
LineBare == Columns([nu |-> 15, sw |-> 4, molec_id |-> 2])

Catalogue == {LineVoigt, LineHT, LineBare}

RECURSIVE SeqsUpTo(_, _)
SeqsUpTo(S, n) ==
    IF n = 0 THEN {<< >>}
    ELSE LET R == SeqsUpTo(S, n - 1)
         IN R \cup {Append(q, x) : q \in {r \in R : Len(r) = n - 1}, x \in S}

\* LOCAL_TABLE_CACHE[TableName]['data'], row-wise
Tables == SeqsUpTo(Catalogue, MaxLines)

D(species, abun) == [species |-> species, abun |-> abun]

BaseArgs ==
    [profile |-> "PROFILE_VOIGT", calcpars |-> "Voigt",
     Components |-> NoneSeq, Environment |-> [T |-> 296, p |-> 1],
     WavenumberRange |-> NoneSeq, WavenumberStep |-> 5,
     WavenumberGrid |-> Some(<< 25, 5, 12, 9, 10, 8, 11, 15, 20, 30, 0 >>),
     WavenumberWing |-> None, WavenumberWingHW |-> Some(1),
     IntensityThreshold |-> 0, GammaL |-> "gamma_air", HITRAN_units |-> TRUE,
     LineShift |-> TRUE, LineMixingRosen |-> FALSE, Diluent |-> << >>,
     exclude |-> NoneSet, DEBUG |-> FALSE]

With(a, f, x) == [a EXCEPT ![f] = x]

Pair(a, profile, calcpars) == With(With(a, "profile", profile), "calcpars", calcpars)

Families ==
    { <<"PROFILE_VOIGT", "Voigt">>, <<"PROFILE_HT", "HT">>, <<"PROFILE_LORENTZ", "Lorentz">>,
      <<"PROFILE_SDVOIGT", "SDVoigt">>, <<"PROFILE_DOPPLER", "Doppler">>,
      <<"PROFILE_HT", "FullPriority">> }

\* BaseArgs with one argument changed
OneChange(a) ==
    {Pair(a, f[1], f[2]) : f \in Families}
    \cup {With(a, "Environment", e) : e \in {[T |-> 2, p |-> 1], [T |-> 296, p |-> 2]}}
    \cup {With(a, "LineShift", FALSE), With(a, "LineMixingRosen", TRUE),
          With(a, "DEBUG", TRUE), With(a, "HITRAN_units", FALSE),
          With(a, "IntensityThreshold", 3), With(a, "GammaL", "gamma_self"),
          With(a, "WavenumberWing", Some(5)), With(a, "WavenumberWingHW", Some(0)),
          With(a, "WavenumberWingHW", None), With(a, "WavenumberGrid", NoneSeq),
          With(With(a, "WavenumberGrid", NoneSeq), "WavenumberRange", Some(<< 5, 17 >>)),
          With(a, "exclude", [given |-> TRUE, v |-> {}]),
          With(a, "exclude", [given |-> TRUE, v |-> {"Gamma0"}]),
          With(a, "Components", Some(<< << 1, 1, 2 >> >>)),
          With(a, "profile", "None"), With(a, "calcpars", "None")}
    \cup {With(a, "Diluent", d) :
            d \in { << D("air", 1), D("self", 1) >>, << D("self", 1) >>,
                    << D("air", 0) >>, << D("air", 2) >>, << D("self", 0 - 1) >>,
                    << D("xyz", 1) >> }}

\* the calls of the model: BaseArgs and its one-argument variants, the same
\* for the HT family, and for the Lorentz family with a zero relative wing,
\* with line mixing and in a diluent of fraction 0, and a call on a range
\* with an absolute wing that reaches it from outside, and an HT call with
\* tracing and without line shift
CallArgs ==
    LET HT == Pair(BaseArgs, "PROFILE_HT", "HT")
        Lorentz == Pair(BaseArgs, "PROFILE_LORENTZ", "Lorentz")
    IN OneChange(BaseArgs) \cup OneChange(HT)
       \cup {With(Lorentz, "WavenumberWingHW", Some(0)),
             With(Lorentz, "LineMixingRosen", TRUE),
             With(Lorentz, "Diluent", << D("air", 0) >>),
             With(With(HT, "DEBUG", TRUE), "LineShift", FALSE),
             With(With(With(BaseArgs, "WavenumberGrid", NoneSeq),
                       "WavenumberRange", Some(<< 5, 17 >>)),
                  "WavenumberWing", Some(6))}

\* ------------------------------------------------------------------- state
VARIABLES
    table,            \* LOCAL_TABLE_CACHE[TableName]['data'], the rows in order
    exclude_default,  \* the set object bound as default of the parameter exclude
    abscoef_debug,    \* VARIABLES['abscoef_debug']
    pc,               \* "idle", "loop" (inside the row loop), "done"
    args,             \* the arguments of the call in progress or last made
    loc,              \* locals fixed before the loop: T, p, Diluent, ABUNDANCES,
                      \* factor, OmegaWingHW, IntensityThreshold, exclude
    Omegas,           \* the wavenumber grid
    Xsect,            \* the output accumulator
    XsectNaN,         \* the 0-based positions of Xsect that hold NaN
    OmegaWing,        \* the local OmegaWing
    RowID,            \* the loop variable: rows before it are done
    DEBUG,            \* the caller's DEBUG list
    hist,             \* what each row of this call did (history)
    result,           \* what the last call returned or raised
    ref,              \* the first completed call among RefArgs (history)
    unit              \* the last direct call of one function: its name, its
                      \* arguments and what it returned

vars == << table, exclude_default, abscoef_debug, pc, args, loc, Omegas, Xsect,
           XsectNaN, OmegaWing, RowID, DEBUG, hist, result, ref, unit >>

NoUnit == [op |-> "none"]

NoResult == [exc |-> "none", Omegas |-> << >>, Xsect |-> << >>, XsectNaN |-> {}]

Raised(e) == [exc |-> e, Omegas |-> << >>, Xsect |-> << >>, XsectNaN |-> {}]

NoLoc ==
    [T |-> 0, p |-> 0, Diluent |-> << >>, ABUNDANCES |-> EmptyDict, factor |-> 0,
     OmegaWingHW |-> 0, IntensityThreshold |-> 0, exclude |-> {}]

NoRef == [set |-> FALSE, args |-> BaseArgs, result |-> NoResult]

\* the calls whose first result is kept for comparison with their repeats
RefArgs == {BaseArgs, With(BaseArgs, "LineMixingRosen", TRUE)}

Init ==
    /\ table \in Tables
    /\ exclude_default = {}
    /\ abscoef_debug = TRUE
    /\ pc = "idle"
    /\ args = BaseArgs
    /\ loc = NoLoc
    /\ Omegas = << >>
    /\ Xsect = << >>
    /\ XsectNaN = {}
    /\ OmegaWing = 0
    /\ RowID = 0
    /\ DEBUG = << >>
    /\ hist = << >>
    /\ result = NoResult
    /\ ref = NoRef
    /\ unit = NoUnit

\* --------------------------------------------- absorptionCoefficient_Generic
ParnamesExclude ==
    {"a", "global_upper_quanta", "global_lower_quanta", "local_upper_quanta",
     "local_lower_quanta", "ierr", "iref", "line_mixing_flag"}

\* ABUNDANCES built from Components; None stands for every (M, I) of the table
AbundancesOf(Components, tbl) ==
    IF ~Components.given
    THEN [mi \in {<< tbl[r]["molec_id"], tbl[r]["local_iso_id"] >> : r \in 1..Len(tbl)}
            |-> abundance(mi[1], mi[2])]
    ELSE LET C == Components.v
         IN [mi \in {<< C[k][1], C[k][2] >> : k \in 1..Len(C)} |->
               LET k == CHOOSE j \in 1..Len(C) :
                          /\ << C[j][1], C[j][2] >> = mi
                          /\ \A j2 \in (j + 1)..Len(C) : << C[j2][1], C[j2][2] >> # mi
               IN IF Len(C[k]) >= 3 THEN C[k][3] ELSE abundance(mi[1], mi[2])]

\* if not LineMixingRosen: exclude.add('YRosen');
\* if not LineShift: exclude.update({'Delta0', 'Delta2'})
ExcludeAdded(exclude, a) ==
    exclude
    \cup (IF ~a.LineMixingRosen THEN {"YRosen"} ELSE {})
    \cup (IF ~a.LineShift THEN {"Delta0", "Delta2"} ELSE {})

DiluentOf(a) ==
    IF a.Diluent # << >> THEN a.Diluent
    ELSE IF a.GammaL = "gamma_air" THEN << D("air", 1) >>
    ELSE << D("self", 1) >>

\* variant: the test `val < 0 and val > 1`
DiluentFractionError_and(Diluent) ==
    \E k \in 1..Len(Diluent) : Diluent[k].abun < 0 /\ Diluent[k].abun > 1

\* variant: a species other than air and self is an error as well
DiluentFractionError_named(Diluent) ==
    \E k \in 1..Len(Diluent) :
        \/ Diluent[k].abun < 0 \/ Diluent[k].abun > 1
        \/ Diluent[k].species \notin {"air", "self"}

\* the simple check of the Diluent: some val < 0 or val > 1
DiluentFractionError(Diluent) ==
    \E k \in 1..Len(Diluent) : Diluent[k].abun < 0 \/ Diluent[k].abun > 1

\* everything absorptionCoefficient_Generic does before the row loop
Call(a) ==
    /\ pc \in {"idle", "done"}
    /\ args' = a
    /\ RowID' = 0
    /\ hist' = << >>
    /\ DEBUG' = << >>
    /\ UNCHANGED << table, ref, unit >>
    /\ IF a.profile = "None" \/ a.calcpars = "None"
       THEN /\ pc' = "done"
            /\ result' = Raised("Exception")
            /\ loc' = NoLoc
            /\ Omegas' = << >>
            /\ Xsect' = << >>
            /\ XsectNaN' = {}
            /\ OmegaWing' = 0
            /\ UNCHANGED << exclude_default, abscoef_debug >>
       ELSE LET exclude == ExcludeAdded(IF a.exclude.given THEN a.exclude.v
                                        ELSE exclude_default, a)
                nus == {table[r]["nu"] : r \in 1..Len(table)}
                noRange == ~a.WavenumberRange.given /\ nus = {}
                OmegaRange ==
                    IF a.WavenumberRange.given THEN a.WavenumberRange.v
                    ELSE << CHOOSE x \in nus : \A y \in nus : x <= y,
                            CHOOSE x \in nus : \A y \in nus : x >= y >>
                grid == IF a.WavenumberGrid.given THEN npsort(a.WavenumberGrid.v)
                        ELSE arange_(OmegaRange[1], OmegaRange[2], a.WavenumberStep)
                Diluent == DiluentOf(a)
                badGammaL == a.Diluent = << >> /\ a.GammaL \notin {"gamma_air", "gamma_self"}
                badDiluent == DiluentFractionError(Diluent)
                exc == IF noRange THEN "ValueError"
                       ELSE IF badGammaL \/ badDiluent THEN "Exception"
                       ELSE ""
            IN /\ abscoef_debug' = a.DEBUG
               /\ exclude_default' = IF a.exclude.given THEN exclude_default ELSE exclude
               /\ IF exc # ""
                  THEN /\ pc' = "done"
                       /\ result' = Raised(exc)
                       /\ loc' = NoLoc
                       /\ Omegas' = << >>
                       /\ Xsect' = << >>
                       /\ XsectNaN' = {}
                       /\ OmegaWing' = 0
                  ELSE /\ pc' = "loop"
                       /\ result' = NoResult
                       /\ loc' = [T |-> a.Environment.T, p |-> a.Environment.p,
                                  Diluent |-> Diluent,
                                  ABUNDANCES |-> AbundancesOf(a.Components, table),
                                  factor |-> IF a.HITRAN_units THEN 1
                                             ELSE volumeConcentration(a.Environment.p,
                                                                      a.Environment.T),
                                  OmegaWingHW |-> IF a.WavenumberWingHW.given
                                                  THEN a.WavenumberWingHW.v ELSE 50,
                                  IntensityThreshold |-> a.IntensityThreshold,
                                  exclude |-> exclude]
                       /\ Omegas' = grid
                       /\ Xsect' = [k \in 1..Len(grid) |-> 0]
                       /\ XsectNaN' = {}
                       /\ OmegaWing' = IF a.WavenumberWing.given THEN a.WavenumberWing.v
                                       ELSE 0

\* TRANS of a row: the columns outside parnames_exclude and the call's values
TransOf(row, l) ==
    LET parnames == DOMAIN row \ ParnamesExclude
        cols == [c \in parnames |-> row[c]]
    IN cols @@ [T |-> l.T, p |-> l.p, T_ref |-> 296, p_ref |-> 1]
       @@ ("Diluent" :> l.Diluent) @@ ("Abundances" :> l.ABUNDANCES)

\* ... and with the partition sums, as calcpars gets it
TransFull(row, l) ==
    LET TRANS == TransOf(row, l)
    IN TRANS @@ [SigmaT |-> partitionFunction(TRANS["molec_id"], TRANS["local_iso_id"],
                                              TRANS["T"]),
                 SigmaT_ref |-> partitionFunction(TRANS["molec_id"],
                                                  TRANS["local_iso_id"], TRANS["T_ref"])]

\* the accumulator and the local OmegaWing, as the loop body finds and leaves them
Acc(X, N, W) == [Xsect |-> X, XsectNaN |-> N, OmegaWing |-> W]

Skip(kind, acc) ==
    [kind |-> kind, exc |-> "", acc |-> acc, PARAMS |-> EmptyDict, calls |-> << >>,
     CALC_INFO |-> CalcInfoNone, wing |-> 0, lo |-> 0, hi |-> 0, vals |-> << >>]

\* mutant: the slice is assigned, not added to
SetSlice(acc, lo, hi, factor, vals) ==
    LET nan == acc.XsectNaN \cup {k \in lo..(hi - 1) : vals[k - lo + 1].nan}
    IN [acc EXCEPT
          !.XsectNaN = nan,
          !.Xsect = [k \in 1..Len(acc.Xsect) |->
                       IF (k - 1) \in nan THEN 0
                       ELSE IF lo < k /\ k <= hi
                       THEN factor * vals[k - lo].v
                       ELSE acc.Xsect[k]]]

\* Xsect[lo:hi] += factor * lineshape_vals; an element that is NaN stays NaN
\* and is kept as 0 with its 0-based position in XsectNaN
AddSlice(acc, lo, hi, factor, vals) ==
    LET nan == acc.XsectNaN \cup {k \in lo..(hi - 1) : vals[k - lo + 1].nan}
    IN [acc EXCEPT
          !.XsectNaN = nan,
          !.Xsect = [k \in 1..Len(acc.Xsect) |->
                       IF (k - 1) \in nan THEN 0
                       ELSE IF lo < k /\ k <= hi
                       THEN acc.Xsect[k] + factor * vals[k - lo].v
                       ELSE acc.Xsect[k]]]

\* what the loop body hands back for a row it went through with
Done(kind, exc, acc, cp, wing, lo, hi, vals) ==
    [kind |-> kind, exc |-> exc, acc |-> acc, PARAMS |-> cp.PARAMS, calls |-> cp.calls,
     CALC_INFO |-> cp.CALC_INFO, wing |-> wing, lo |-> lo, hi |-> hi, vals |-> vals]

\* lines 6687-6688, pr being what profile(**PARAMETERS) handed back
LineAdd(l, acc1, cp, OmegaWingF, lo, hi, pr) ==
    IF pr.exc # "" THEN Done("raise", pr.exc, acc1, cp, OmegaWingF, lo, hi, << >>)
    ELSE Done("add", "", AddSlice(acc1, lo, hi, l.factor, pr.vals), cp, OmegaWingF, lo, hi,
              [k \in 1..Len(pr.vals) |-> Val(l.factor * pr.vals[k].v, pr.vals[k].nan)])

\* lines 6684-6688, with the wing of the line
LineWindow(a, l, omegas, acc1, cp, nu, OmegaWingF) ==
    LineAdd(l, acc1, cp, OmegaWingF,
            bisect(omegas, nu - OmegaWingF), bisect(omegas, nu + OmegaWingF),
            CallProfile(a.profile,
                        Put(cp.PARAMS, "WnGrid",
                            SubSeq(omegas, bisect(omegas, nu - OmegaWingF) + 1,
                                   bisect(omegas, nu + OmegaWingF)))))

\* lines 6677-6681, with GammaMax and the OmegaWing the row leaves
LineWing(a, l, omegas, acc, cp, nu, GammaMax, OmegaWing1) ==
    LineWindow(a, l, omegas, [acc EXCEPT !.OmegaWing = OmegaWing1], cp, nu,
               Max2(OmegaWing1, l.OmegaWingHW * GammaMax))

\* lines 6669-6688, cp being what calcpars handed back
LineCalc(a, l, omegas, acc, cp, nu) ==
    IF cp.exc # "" THEN Done("raise", cp.exc, acc, cp, 0, 0, 0, << >>)
    ELSE LET GammaD == IF "GammaD" \in DOMAIN cp.PARAMS THEN cp.PARAMS["GammaD"] ELSE 0
             Gamma0 == IF "Gamma0" \in DOMAIN cp.PARAMS THEN cp.PARAMS["Gamma0"] ELSE 0
             GammaMax == Max2(Gamma0, GammaD)
         IN LineWing(a, l, omegas, acc, cp, nu, GammaMax,
                     IF GammaMax = 0 /\ l.OmegaWingHW = 0 THEN 10 ELSE acc.OmegaWing)

\* variant: a line at the threshold is skipped as well
LineTrans_le(a, l, debug, omegas, acc, TRANS) ==
    IF calculate_parameter_Sw(TRANS, CalcInfoNone).value <= l.IntensityThreshold
    THEN Skip("weak", acc)
    ELSE LineCalc(a, l, omegas, acc,
                  CallCalcpars(a.calcpars, TRANS,
                               IF debug THEN CalcInfoDict ELSE CalcInfoNone,
                               l.exclude, debug),
                  TRANS["nu"])

\* lines 6656-6666, with the TRANS of the row
LineTrans(a, l, debug, omegas, acc, TRANS) ==
    IF calculate_parameter_Sw(TRANS, CalcInfoNone).value < l.IntensityThreshold
    THEN Skip("weak", acc)
    ELSE LineCalc(a, l, omegas, acc,
                  CallCalcpars(a.calcpars, TRANS,
                               IF debug THEN CalcInfoDict ELSE CalcInfoNone,
                               l.exclude, debug),
                  TRANS["nu"])

\* the body of the row loop for one row: what it did and what it left
LineBody(row, a, l, debug, omegas, acc) ==
    IF << row["molec_id"], row["local_iso_id"] >> \notin DOMAIN l.ABUNDANCES
    THEN Skip("filtered", acc)
    ELSE LineTrans(a, l, debug, omegas, acc, TransFull(row, l))

\* the row loop from row i on, over any table: the exception that ended it
\* ("" if none) and the accumulator it left
RECURSIVE RowLoop(_, _, _, _, _, _, _)
\* after row i, b being what the body handed back
AfterRow(tbl, a, l, debug, omegas, i, acc, b) ==
    IF b.kind = "raise" THEN [exc |-> b.exc, acc |-> acc]
    ELSE RowLoop(tbl, a, l, debug, omegas, i + 1, b.acc)

RowLoop(tbl, a, l, debug, omegas, i, acc) ==
    IF i > Len(tbl) THEN [exc |-> "", acc |-> acc]
    ELSE AfterRow(tbl, a, l, debug, omegas, i, acc,
                  LineBody(tbl[i], a, l, debug, omegas, acc))

\* Xsect = zeros(number_of_points), and OmegaWing as the defaults leave it
InitAcc(a, omegas) ==
    Acc([k \in 1..Len(omegas) |-> 0], {},
        IF a.WavenumberWing.given THEN a.WavenumberWing.v ELSE 0)

\* what hist keeps of a row
HistOf(b) == [kind |-> b.kind, exc |-> b.exc, PARAMS |-> b.PARAMS, calls |-> b.calls,
              wing |-> b.wing, lo |-> b.lo, hi |-> b.hi, vals |-> b.vals]

\* the state a pass of the row loop leaves, b being what the body handed back
LineEnds(b) ==
    /\ hist' = Append(hist, HistOf(b))
    /\ Xsect' = b.acc.Xsect
    /\ XsectNaN' = b.acc.XsectNaN
    /\ OmegaWing' = b.acc.OmegaWing
    /\ RowID' = RowID + 1
    /\ DEBUG' = IF b.kind = "add" /\ abscoef_debug THEN Append(DEBUG, b.CALC_INFO)
                ELSE DEBUG
    /\ IF b.kind = "raise"
       THEN /\ pc' = "done"
            /\ result' = Raised(b.exc)
       ELSE /\ pc' = "loop"
            /\ result' = result

\* variant: TRANS is the row of the table itself, which so receives the
\* keys the loop writes into TRANS
RowAfter_alias(row, TRANS) == TRANS

\* the row of DATA_DICT after the pass: TRANS is a CaselessDict built anew
\* from the values of the row, so what the loop writes stays in TRANS
RowAfter(row, TRANS) == row

\* one pass of the row loop; an exception of the body ends the call
Line ==
    /\ pc = "loop"
    /\ RowID < Len(table)
    /\ table' = [table EXCEPT ![RowID + 1] = RowAfter(@, TransOf(@, loc))]
    /\ LineEnds(LineBody(table[RowID + 1], args, loc, abscoef_debug, Omegas,
                         Acc(Xsect, XsectNaN, OmegaWing)))
    /\ UNCHANGED << exclude_default, abscoef_debug, args, loc, Omegas, ref, unit >>

Returned == [exc |-> "", Omegas |-> Omegas, Xsect |-> Xsect, XsectNaN |-> XsectNaN]

\* return Omegas, Xsect
Return ==
    /\ pc = "loop"
    /\ RowID = Len(table)
    /\ pc' = "done"
    /\ result' = Returned
    /\ ref' = IF ~ref.set /\ args \in RefArgs
              THEN [set |-> TRUE, args |-> args, result |-> Returned]
              ELSE ref
    /\ UNCHANGED << table, exclude_default, abscoef_debug, args, loc, Omegas, Xsect,
                    XsectNaN, OmegaWing, RowID, DEBUG, hist, unit >>

Next ==
    \/ \E a \in CallArgs : Call(a)
    \/ Line
    \/ Return

Spec == Init /\ [][Next]_vars

\* ------------------------------------------------- direct calls of functions
\* The functions below are called directly on arguments drawn from small
\* sets; unit keeps the arguments and the returned value of the last call.
\* Nothing else of the state moves.
UnitFrame ==
    UNCHANGED << table, exclude_default, abscoef_debug, pc, args, loc, Omegas, Xsect,
                 XsectNaN, OmegaWing, RowID, DEBUG, hist, result, ref >>

UnitColumns == {"gamma_air", "n_air", "delta_air", "deltap_air"}

\* line contexts in which each of UnitColumns is absent, holds a number or
\* holds np.ma.masked
UnitRows ==
    {[T |-> 296, p |-> 1] @@ [c \in S |-> f[c]] :
        S \in SUBSET UnitColumns, f \in [UnitColumns -> {2, masked}]}

UnitSelectors == {"Lorentz_Gamma0_default", "Lorentz_Delta0_default"}

\* environGetArguments_<fn>(broadener, TRANS) with abscoef_debug set
UnitGetArgs ==
    /\ \E fn \in UnitSelectors, b \in {"air", "self"}, TRANS \in UnitRows :
          unit' = [op |-> "getargs", fn |-> fn, broadener |-> b, TRANS |-> TRANS,
                   out |-> Selector(getargs(fn, b, TRANS), TRANS, TRUE)]
    /\ UnitFrame

Profiles ==
    {"PROFILE_HT", "PROFILE_SDRAUTIAN", "PROFILE_RAUTIAN", "PROFILE_SDVOIGT",
     "PROFILE_VOIGT", "PROFILE_LORENTZ", "PROFILE_DOPPLER"}

Calcpars == {"Doppler", "Lorentz", "Voigt", "SDVoigt", "HT", "FullPriority"}

\* the keys of a PARAMETERS dict: those a calcpars returns with WnGrid added,
\* those a profile requires, and those with the line-mixing coefficient
\* under the keyword YRosen
UnitKeySets ==
    {{ParametersOf(c)[i] : i \in 1..Len(ParametersOf(c))} \cup {"WnGrid"} : c \in Calcpars}
    \cup {ProfileRequired(q) : q \in Profiles}
    \cup {ProfileRequired("PROFILE_RAUTIAN") \cup {"YRosen"}}

\* resolved parameter values, all different where the profiles tell them apart
UnitValues ==
    {[Nu |-> 10, Sw |-> 3, GammaD |-> gd, Gamma0 |-> g0, Delta0 |-> 1, Gamma2 |-> 4,
      Delta2 |-> 2, Eta |-> 5, NuVC |-> 6, YRosen |-> y, WnGrid |-> << 9, 10, 12 >>] :
        gd \in {0, 2}, g0 \in {0, 3}, y \in {0, 1}}

\* profile(**PARAMETERS)
UnitProfile ==
    /\ \E profile \in Profiles, K \in UnitKeySets, V \in UnitValues :
          unit' = [op |-> "profile", profile |-> profile,
                   PARAMETERS |-> [k \in K |-> V[k]],
                   out |-> CallProfile(profile, [k \in K |-> V[k]])]
    /\ UnitFrame

UnitTemperatures == {0, 50, 99, 100, 150, 199, 200, 296, 399, 400, 700, 1000}

MultitempSelectors ==
    {"HT_Gamma0_multitemp", "HT_Delta0_multitemp", "HT_Gamma2_multitemp",
     "HT_Delta2_multitemp"}

\* environGetArguments_HT_<parameter>_multitemp(broadener, TRANS) on a line
\* context at temperature T: the selector's cases, and the ARGS it builds
UnitMultitemp ==
    /\ \E fn \in MultitempSelectors, b \in {"air", "self"}, T \in UnitTemperatures :
          unit' = [op |-> "multitemp", fn |-> fn, broadener |-> b, T |-> T,
                   T_ref |-> get_T_ref_for_HT_multitemp(T),
                   cases |-> getargs(fn, b, [T |-> T, p |-> 1]).lookup_cases,
                   ARGS |-> Selector(getargs(fn, b, [T |-> T, p |-> 1]),
                                     [T |-> T, p |-> 1], FALSE).ARGS]
    /\ UnitFrame

\* arange_(lower, upper, step) with lower < upper and step > 0
UnitArange ==
    /\ \E lower \in {0, 5}, d \in 1..6, step \in {1, 2, 5}, down \in BOOLEAN :
          unit' = [op |-> "arange_", lower |-> lower, upper |-> lower + d, step |-> step,
                   down |-> down,
                   out |-> arange_rounded(lower, lower + d, step, down)]
    /\ UnitFrame

\* grids of one to three points
UnitGrids(S) == UNION {[1..n -> S] : n \in 1..3}

\* pcqsdhc with c2t = 0 on a grid whose |Z1| are given
UnitPcqsdhcDegenerate ==
    /\ \E Z1 \in UnitGrids({1, 4000, 4001}) :
          unit' = [op |-> "pcqsdhc", c2t |-> 0, Z1 |-> Z1, lenient |-> FALSE,
                   Bterm |-> pcqsdhc_Bterm(Z1), out |-> Shape("", Len(Z1))]
    /\ UnitFrame

\* pcqsdhc with c2t # 0 on a grid whose regions are given
UnitPcqsdhcGeneral ==
    /\ \E X \in UnitGrids({"small", "mid", "large_near", "large_far"}), lenient \in BOOLEAN :
          unit' = [op |-> "pcqsdhc", c2t |-> 1, X |-> X, lenient |-> lenient,
                   out |-> pcqsdhc_parts(X, lenient)]
    /\ UnitFrame

\* the (profile family, parameter, preset) keys of the registry
RegistryEntries ==
    UNION {UNION {{<< f, q, e >> : e \in DOMAIN PRESSURE_INDUCED_ENVDEP[f][q]} :
                    q \in DOMAIN PRESSURE_INDUCED_ENVDEP[f]} :
             f \in DOMAIN PRESSURE_INDUCED_ENVDEP}

\* a line context at temperature T that holds every column the first CASE
\* of the selector g names (full), or none of them
PresetRow(g, T, full) ==
    [T |-> T, p |-> 1]
    @@ [c \in IF full THEN {g.lookup_cases[1].args[k].name :
                                k \in 1..Len(g.lookup_cases[1].args)}
               ELSE {} |-> 2]

\* one registry entry used as ladder uses it: the selector's ARGS, the law,
\* and the ladder over this candidate alone
UnitPresetCall(f, q, e, species, TRANS) ==
    unit' = [op |-> "preset", profile |-> f, parname |-> q, envdep |-> e,
             species |-> species, TRANS |-> TRANS,
             got |-> CallGetArgs(f, q, e, species, TRANS, FALSE),
             depfunc |-> Preset(f, q, e).depfunc,
             out |-> ladder(q, species, << << f, e >> >>, TRANS, FALSE)]

UnitPreset ==
    /\ \E k \in RegistryEntries, T \in {150, 296}, full \in BOOLEAN :
          UnitPresetCall(k[1], k[2], k[3], "air",
                         PresetRow(getargs(Preset(k[1], k[2], k[3]).getargs, "air", [T |-> T]),
                                   T, full))
    /\ UnitFrame

UnitNext ==
    \/ UnitPreset
    \/ UnitGetArgs
    \/ UnitProfile
    \/ UnitMultitemp
    \/ UnitArange
    \/ UnitPcqsdhcDegenerate
    \/ UnitPcqsdhcGeneral

UnitInit == Init /\ table = << >>

UnitSpec == UnitInit /\ [][UnitNext]_vars

TypeOK ==
    /\ pc \in {"idle", "loop", "done"}
    /\ RowID \in 0..Len(table)
    /\ Len(Xsect) = Len(Omegas)
    /\ Len(hist) = RowID

\* ------------------------------------------------------------- properties
\* the ladder calls of the rows done so far, as (row, position) pairs
LadderCalls ==
    UNION {{<< r, k >> : k \in 1..Len(hist[r].calls)} : r \in 1..Len(hist)}

\* TRANS of row r of the table in the call in progress
TransRow(r) == TransFull(table[r], loc)

\* candidate i of the list has a registry entry whose selector resolves
Resolves(parname, species, envdep_presets, TRANS, i) ==
    /\ HasPreset(envdep_presets[i][1], parname, envdep_presets[i][2])
    /\ CallGetArgs(envdep_presets[i][1], parname, envdep_presets[i][2], species, TRANS,
                   FALSE).ok

\* the first candidate whose selector resolves, 0 if there is none
FirstResolving(parname, species, envdep_presets, TRANS) ==
    LET R == {i \in 1..Len(envdep_presets) :
                Resolves(parname, species, envdep_presets, TRANS, i)}
    IN IF R = {} THEN 0 ELSE CHOOSE i \in R : \A j \in R : i <= j

\* C1: every ladder call returns the value of the first candidate of its
\* list whose selector resolves all its arguments, and evaluates no candidate
\* after that one.
C1_FirstResolvingWins ==
    \A rk \in LadderCalls :
       LET c == hist[rk[1]].calls[rk[2]]
           fr == FirstResolving(c.parname, c.species, c.presets, TransRow(rk[1]))
       IN fr # 0 => c.winner = fr /\ c.tried = fr

\* what INFO['status'] holds after the last candidate of the list failed
LastStatus(parname, species, envdep_presets, TRANS) ==
    LET n == Len(envdep_presets)
    IN IF ~HasPreset(envdep_presets[n][1], parname, envdep_presets[n][2])
       THEN [exc |-> "KeyError", names |-> << >>]
       ELSE LET got == CallGetArgs(envdep_presets[n][1], parname, envdep_presets[n][2],
                                   species, TRANS, FALSE)
            IN IF got.ok THEN [exc |-> "TypeError", names |-> << >>]
               ELSE [exc |-> "Exception", names |-> got.params_not_found]

\* C2 as written: a ladder call of calculate_parameter_PI for which no
\* candidate resolves raises, and the parameter gets no value.
C2_UnresolvedRaises ==
    \A rk \in LadderCalls :
       LET c == hist[rk[1]].calls[rk[2]]
       IN c.winner = 0 =>
            /\ hist[rk[1]].kind = "raise"
            /\ c.parname \notin DOMAIN hist[rk[1]].PARAMS

\* C2 amended: a ladder call for which no candidate returns has tried the
\* whole list, hands back the value 0 with INFO['status'] holding the exception
\* of the last candidate only, and calculate_parameter_PI returns a value for
\* the parameter.
C2_UnresolvedIsZero ==
    \A rk \in LadderCalls :
       LET c == hist[rk[1]].calls[rk[2]]
       IN c.winner = 0 =>
            /\ c.value = 0
            /\ c.tried = Len(c.presets)
            /\ c.status = LastStatus(c.parname, c.species, c.presets, TransRow(rk[1]))
            /\ c.parname \in DOMAIN hist[rk[1]].PARAMS

\* a call through a list of several candidates none of which resolved, the
\* last one for missing columns, in a row that went on to be added
C2_Witness ==
    \E rk \in LadderCalls :
       LET c == hist[rk[1]].calls[rk[2]]
       IN /\ c.winner = 0
          /\ Len(c.presets) >= 2
          /\ c.status.exc = "Exception"
          /\ Len(c.status.names) > 0
          /\ hist[rk[1]].kind = "add"

\* the profile function and the parameter function of one family
StandardPair == << args.profile, args.calcpars >> \in Families

\* a row done so far had a ladder call for which no candidate resolved
Unresolved(r) == \E k \in 1..Len(hist[r].calls) : hist[r].calls[k].winner = 0

\* C3 as written: a call in which some row's parameter resolution failed
\* ends with an exception and returns nothing.
C3_UnresolvedAborts ==
    (pc = "done" /\ \E r \in 1..Len(hist) : Unresolved(r)) => result.exc # ""

\* C3 amended: without DEBUG and with a profile and calcpars of one family,
\* a row whose parameter resolution failed is processed like any other, with
\* 0 for the unresolved species, and the call returns its (grid, output) pair.
C3_UnresolvedContinues ==
    (~args.DEBUG /\ StandardPair) =>
       /\ \A r \in 1..Len(hist) : Unresolved(r) => hist[r].kind = "add"
       /\ (pc = "done" /\ Len(hist) = Len(table) /\ loc # NoLoc) =>
             result = [exc |-> "", Omegas |-> Omegas, Xsect |-> Xsect,
                       XsectNaN |-> XsectNaN]

\* a call with the default options has returned although the resolution of
\* Gamma0 failed for one of its rows
C3_Witness ==
    /\ pc = "done"
    /\ args = BaseArgs
    /\ result.exc = ""
    /\ \E r \in 1..Len(hist) :
          /\ hist[r].kind = "add"
          /\ \E k \in 1..Len(hist[r].calls) :
                hist[r].calls[k].winner = 0 /\ hist[r].calls[k].parname = "Gamma0"

\* C4: a processed line is added at exactly the grid points g with
\* nu-w <= g <= nu+w, both bounds included.
C4_ClosedWindow ==
    \A r \in 1..Len(hist) :
       hist[r].kind = "add" =>
          LET nu == table[r]["nu"]
              w == hist[r].wing
          IN {k \in 1..Len(Omegas) : hist[r].lo < k /\ k <= hist[r].hi}
             = {k \in 1..Len(Omegas) : nu - w <= Omegas[k] /\ Omegas[k] <= nu + w}

\* the sum of the contributions of the rows 1..r to element k of the output
RECURSIVE Contributions(_, _)
Contributions(r, k) ==
    IF r = 0 THEN 0
    ELSE Contributions(r - 1, k)
         + (IF hist[r].kind = "add" /\ hist[r].lo < k /\ k <= hist[r].hi
            THEN hist[r].vals[k - hist[r].lo].v ELSE 0)

\* element k of the output got a NaN from one of the rows done so far
NaNContribution(k) ==
    \E r \in 1..Len(hist) :
       /\ hist[r].kind = "add" /\ hist[r].lo < k /\ k <= hist[r].hi
       /\ hist[r].vals[k - hist[r].lo].nan

\* C5: the output is as long as the grid and, after any number of rows,
\* each element is the sum of factor x profile value over the processed rows
\* whose window covers it (0 before the first one); it is NaN exactly where a
\* row contributed a NaN.
C5_OutputIsSum ==
    /\ Len(Xsect) = Len(Omegas)
    /\ \A k \in 1..Len(Xsect) :
          /\ (k - 1) \in XsectNaN <=> NaNContribution(k)
          /\ (k - 1) \notin XsectNaN => Xsect[k] = Contributions(Len(hist), k)

\* two rows have added a nonzero value to the same element of the output
C5_Witness ==
    \E k \in 1..Len(Xsect) : \E r1, r2 \in 1..Len(hist) :
       /\ r1 < r2
       /\ \A r \in {r1, r2} :
             /\ hist[r].kind = "add" /\ hist[r].lo < k /\ k <= hist[r].hi
             /\ hist[r].vals[k - hist[r].lo].v # 0
       /\ (k - 1) \notin XsectNaN
       /\ Xsect[k] = hist[r1].vals[k - hist[r1].lo].v + hist[r2].vals[k - hist[r2].lo].v

\* the exclude set the arguments of the call in progress name
ExcludeOfArgs ==
    ExcludeAdded(IF args.exclude.given THEN args.exclude.v ELSE {}, args)

\* C6: the exclude set in effect during a call is the one its own arguments
\* exclude, LineMixingRosen and LineShift determine, whatever calls came before.
C6_ExcludeFromArgs == pc = "loop" => loc.exclude = ExcludeOfArgs

\* the tables with the rows of tbl in another order
Orderings(tbl) ==
    LET n == Len(tbl)
        perms == {q \in [1..n -> 1..n] : \A i, j \in 1..n : q[i] = q[j] => i = j}
    IN {[k \in 1..n |-> tbl[q[k]]] : q \in perms}

\* C7: the output of a call that returned is the output of the same call on
\* every ordering of the rows of the table.
C7_OrderIndependent ==
    (pc = "done" /\ result.exc = "") =>
       \A t \in Orderings(table) :
          LET o == RowLoop(t, args, loc, abscoef_debug, Omegas, 1, InitAcc(args, Omegas))
          IN /\ o.exc = ""
             /\ o.acc.Xsect = result.Xsect
             /\ o.acc.XsectNaN = result.XsectNaN

\* C8: a call that got into the row loop ends as the same call ends with
\* debug tracing the other way round: the same exception or none, and the
\* same output.
C8_DebugIndependent ==
    (pc = "done" /\ loc # NoLoc) =>
       LET o == RowLoop(table, args, loc, ~abscoef_debug, Omegas, 1,
                        InitAcc(args, Omegas))
       IN /\ o.exc = result.exc
          /\ result.exc = "" =>
                o.acc.Xsect = result.Xsect /\ o.acc.XsectNaN = result.XsectNaN

\* C9: a call with the arguments of an earlier call on the same table returns
\* the grid and the output the earlier call returned.
C9_RepeatSame ==
    (pc = "done" /\ loc # NoLoc /\ ref.set /\ args = ref.args) => result = ref.result

PIParameters == {"Gamma0", "Delta0", "Gamma2", "Delta2", "YRosen"}

\* the sum over the species i.. of the Diluent of TRANS of mole fraction x
\* the value the ladder resolves for the species
RECURSIVE MixtureSum(_, _, _, _)
MixtureSum(parname, envdep_presets, TRANS, i) ==
    IF i > Len(TRANS["Diluent"]) THEN 0
    ELSE TRANS["Diluent"][i].abun
           * ladder(parname, TRANS["Diluent"][i].species, envdep_presets, TRANS, FALSE).value
         + MixtureSum(parname, envdep_presets, TRANS, i + 1)

\* C10: every mixture-summed parameter a row resolved is the sum over the
\* diluent species of mole fraction x the ladder value of the species, the
\* fractions taken as given.
C10_MixtureSum ==
    \A r \in 1..Len(hist) :
       \A pn \in (PIParameters \cap DOMAIN hist[r].PARAMS) \ loc.exclude :
          hist[r].PARAMS[pn] = MixtureSum(pn, PresetsOf(args.calcpars), TransRow(r), 1)

\* a row resolved Gamma0 for two species whose fractions sum to 2, each
\* with a value of its own
C10_Witness ==
    \E r \in 1..Len(hist) :
       /\ hist[r].kind = "add"
       /\ Len(loc.Diluent) = 2
       /\ loc.Diluent[1].abun + loc.Diluent[2].abun = 2
       /\ \E k1, k2 \in 1..Len(hist[r].calls) :
             /\ hist[r].calls[k1].parname = "Gamma0"
             /\ hist[r].calls[k2].parname = "Gamma0"
             /\ hist[r].calls[k1].species # hist[r].calls[k2].species
             /\ hist[r].calls[k1].value > 0
             /\ hist[r].calls[k2].value > 0
             /\ hist[r].PARAMS["Gamma0"] = hist[r].calls[k1].value + hist[r].calls[k2].value

\* ------------------------------------------------------------------- C11
\* the line context without the columns that hold np.ma.masked
Unmasked(TRANS) ==
    [c \in {d \in DOMAIN TRANS : TRANS[d] # masked} |-> TRANS[c]]

\* C11: a column that is present but holds the masked constant is treated as
\* an absent column: the selector returns what it returns for the line
\* context without that column (the default with source '<default>', or the
\* candidate fails), and only a present, non-missing value is used with its
\* column name as source.
C11_MaskedIsAbsent ==
    unit.op = "getargs" =>
        unit.out = Selector(getargs(unit.fn, unit.broadener, Unmasked(unit.TRANS)),
                            Unmasked(unit.TRANS), TRUE)

\* a selector was given a masked column its case looks up, and it returned
\* the masked constant as the value, with the column name as source
C11_Witness ==
    /\ unit.op = "getargs"
    /\ unit.out.ok
    /\ \E x \in DOMAIN unit.out.INFO :
          /\ unit.out.INFO[x].value = masked
          /\ unit.out.INFO[x].source # "<default>"

\* ------------------------------------------------------------------- C12
\* max(Gamma0, GammaD) of row r, a missing one counting as 0
GammaMaxOf(r) ==
    Max2(IF "Gamma0" \in DOMAIN hist[r].PARAMS THEN hist[r].PARAMS["Gamma0"] ELSE 0,
         IF "GammaD" \in DOMAIN hist[r].PARAMS THEN hist[r].PARAMS["GammaD"] ELSE 0)

\* the absolute wing the caller passed, 0 when omitted
AbsoluteWing == IF args.WavenumberWing.given THEN args.WavenumberWing.v ELSE 0

\* C12: for every processed line with a non-zero width the wing is
\* max(absolute wing, relative wing x max(Gamma0, GammaD)), the absolute
\* wing being the caller's WavenumberWing/OmegaWing (0 when omitted) and a
\* missing Gamma0 or GammaD counting as 0.
C12_WingFormula ==
    \A r \in 1..Len(hist) :
        (hist[r].kind = "add" /\ GammaMaxOf(r) > 0) =>
            hist[r].wing = Max2(AbsoluteWing, loc.OmegaWingHW * GammaMaxOf(r))

\* a line with a non-zero width processed after a line without any width
C12_Witness ==
    \E r \in 2..Len(hist) :
        /\ hist[r].kind = "add" /\ GammaMaxOf(r) > 0
        /\ hist[r - 1].kind = "add" /\ GammaMaxOf(r - 1) = 0

\* ------------------------------------------------------------------- C13
\* C13: a processed line whose Gamma0 and GammaD are both absent or zero, in
\* a call without absolute wing, gets the fixed wing of 10 cm-1 (not a
\* window of zero width), and the call goes on.
C13_FallbackWing ==
    \A r \in 1..Len(hist) :
        (hist[r].kind = "add" /\ GammaMaxOf(r) = 0 /\ ~args.WavenumberWing.given) =>
            hist[r].wing = 10

\* a line without any width was processed in a call without absolute wing
\* and with a relative wing that is not 0
C13_Witness ==
    \E r \in 1..Len(hist) :
        /\ hist[r].kind = "add" /\ GammaMaxOf(r) = 0
        /\ ~args.WavenumberWing.given /\ loc.OmegaWingHW # 0
        /\ hist[r].wing = 0 /\ hist[r].lo = hist[r].hi

\* ------------------------------------------------------------------- C14
\* C14: in a call that got as far as the row loop, YRosen is in the exclude
\* set unless line mixing was requested, Delta0 and Delta2 are in it unless
\* the line shift was requested, and for every line every excluded parameter
\* of the parameter list is 0 and no ladder call was made for it.
C14_ExcludedIsZero ==
    loc # NoLoc =>
        /\ ~args.LineMixingRosen => "YRosen" \in loc.exclude
        /\ ~args.LineShift => {"Delta0", "Delta2"} \subseteq loc.exclude
        /\ \A r \in 1..Len(hist) :
              \A pn \in loc.exclude \cap DOMAIN hist[r].PARAMS :
                  /\ hist[r].PARAMS[pn] = 0
                  /\ \A k \in 1..Len(hist[r].calls) : hist[r].calls[k].parname # pn

\* a line whose shift and line-mixing columns are not 0 was processed with
\* Delta0 and YRosen excluded
C14_Witness ==
    /\ \E r \in 1..Len(hist) :
          /\ hist[r].kind = "add"
          /\ ~args.LineShift /\ ~args.LineMixingRosen
          /\ {"Delta0", "YRosen"} \subseteq DOMAIN hist[r].PARAMS
          /\ "delta_air" \in DOMAIN table[r] /\ table[r]["delta_air"] # 0
          /\ "y_air" \in DOMAIN table[r] /\ table[r]["y_air"] # 0
          /\ hist[r].PARAMS["Delta0"] = 0 /\ hist[r].PARAMS["YRosen"] = 0

\* ------------------------------------------------------------------- C15
RECURSIVE MixtureTotal(_, _)
\* the sum of the fractions of a Diluent from position k on
MixtureTotal(Diluent, k) ==
    IF k > Len(Diluent) THEN 0 ELSE Diluent[k].abun + MixtureTotal(Diluent, k + 1)

\* the diluent of the call holds a fraction below 0 or above 1
FractionOutside ==
    \E k \in 1..Len(DiluentOf(args)) :
        DiluentOf(args)[k].abun < 0 \/ DiluentOf(args)[k].abun > 1

\* the fractions of a Diluent the caller passed lie in [0,1] and do not sum to 1
FractionsOff ==
    /\ args.Diluent # << >>
    /\ ~FractionOutside
    /\ MixtureTotal(args.Diluent, 1) # 1

\* C15: a call without profile, without calcpars or with a diluent fraction
\* below 0 or above 1 ends with an exception before any line is processed;
\* a call with profile and calcpars whose fractions lie in [0,1] without
\* summing to 1 is not rejected: it reaches the row loop.
C15_ConfigurationErrors ==
    pc # "idle" =>
        /\ (args.profile = "None" \/ args.calcpars = "None" \/ FractionOutside) =>
               /\ pc = "done"
               /\ result.exc \notin {"", "none"}
               /\ hist = << >>
               /\ loc = NoLoc
        /\ (args.profile # "None" /\ args.calcpars # "None" /\ FractionsOff
             /\ table # << >>) =>
               loc # NoLoc

\* a call with a fraction above 1 ended with the exception of the check
C15_Witness ==
    /\ pc = "done"
    /\ \E k \in 1..Len(args.Diluent) : args.Diluent[k].abun > 1
    /\ result.exc = "Exception"
    /\ hist = << >>

\* ------------------------------------------------------------------- C16
\* the call names a broadener other than air and self in its Diluent, with
\* fractions in [0,1], a profile and a calcpars, on a table with lines; no
\* table of the model holds a column for such a broadener
UnknownBroadener ==
    /\ pc # "idle"
    /\ \E k \in 1..Len(args.Diluent) : args.Diluent[k].species \notin {"air", "self"}
    /\ ~FractionOutside
    /\ args.profile # "None" /\ args.calcpars # "None"
    /\ table # << >>

C17_ExtraKeysIgnored ==
    (unit.op = "profile" /\ ProfileRequired(unit.profile) \subseteq DOMAIN unit.PARAMETERS) =>
        /\ unit.out.exc = ""
        /\ unit.out = CallProfile(unit.profile,
                                  [k \in DOMAIN unit.PARAMETERS \cap ProfileParams(unit.profile)
                                     |-> unit.PARAMETERS[k]])

\* PROFILE_LORENTZ was called with what it requires and GammaD besides
C17_Witness ==
    /\ unit.op = "profile"
    /\ unit.profile = "PROFILE_LORENTZ"
    /\ ProfileRequired(unit.profile) \subseteq DOMAIN unit.PARAMETERS
    /\ "GammaD" \in DOMAIN unit.PARAMETERS
    /\ unit.out.exc = "TypeError"

\* ------------------------------------------------------------------- C18
\* C18: for every line whose window was taken, wherever its center lies
\* (inside the grid, at its first or last point, outside its range), the
\* bounds satisfy 0 <= lower <= upper <= len(grid), and the profile values
\* on the sub-grid are as many as the positions upper - lower of the
\* accumulator slice.
C18_WindowInBounds ==
    \A r \in 1..Len(hist) :
        hist[r].kind = "add" =>
            /\ hist[r].wing >= 0
            /\ 0 <= hist[r].lo
            /\ hist[r].lo <= hist[r].hi
            /\ hist[r].hi <= Len(Omegas)
            /\ Len(hist[r].vals) = hist[r].hi - hist[r].lo

\* one call processed a line centered at the last grid point and a line
\* centered beyond the grid
C18_Witness ==
    /\ Omegas # << >>
    /\ \E r1, r2 \in 1..Len(hist) :
          /\ hist[r1].kind = "add" /\ hist[r2].kind = "add"
          /\ table[r1]["nu"] = Omegas[Len(Omegas)]
          /\ hist[r1].hi = Len(Omegas)
          /\ table[r2]["nu"] > Omegas[Len(Omegas)]
          /\ hist[r2].lo = Len(Omegas) /\ hist[r2].hi = Len(Omegas)

\* ------------------------------------------------------------------- C19
\* the reference temperature of the bucket of T: 50 for 0 <= T < 100, 150 for
\* 100 <= T < 200, 296 for 200 <= T < 400, 700 from 400 on
Bucket(T) ==
    CASE T < 100 -> 50
      [] T >= 100 /\ T < 200 -> 150
      [] T >= 200 /\ T < 400 -> 296
      [] T >= 400 -> 700

\* the column name stems of the HT multitemp selectors
Stem(fn, abstract) ==
    CASE fn = "HT_Gamma0_multitemp" -> IF abstract = "Par_ref" THEN "gamma_ht_0_" ELSE "n_ht_"
      [] fn = "HT_Delta0_multitemp" -> IF abstract = "Par_ref" THEN "delta_ht_0_" ELSE "deltap_ht_"
      [] fn = "HT_Gamma2_multitemp" ->
           IF abstract = "Par_ref" THEN "gamma_ht_2_" ELSE "n_gamma_ht_2_"
      [] fn = "HT_Delta2_multitemp" ->
           IF abstract = "Par_ref" THEN "delta_ht_2_" ELSE "deltap_ht_2_"

\* C19: for T >= 0 get_T_ref_for_HT_multitemp returns the reference
\* temperature of the bucket of T, and every HT multitemp selector looks up
\* the columns <stem><broadener>_<that T_ref> and hands the same T_ref to
\* the dependence law.
C19_MultitempBuckets ==
    unit.op = "multitemp" =>
        /\ unit.T_ref = Bucket(unit.T)
        /\ unit.ARGS["T_ref"] = Bucket(unit.T)
        /\ unit.ARGS["T"] = unit.T
        /\ Len(unit.cases) = 1
        /\ Len(unit.cases[1].args) = 2
        /\ \A k \in 1..2 :
              unit.cases[1].args[k].name =
                  Stem(unit.fn, unit.cases[1].args[k].abstract) \o unit.broadener
                  \o "_" \o ToString(Bucket(unit.T))

\* a multitemp selector was called at the lower edge of a bucket other than
\* the HITRAN reference one
C19_Witness ==
    /\ unit.op = "multitemp"
    /\ unit.T = 100
    /\ unit.T_ref = 150
    /\ unit.cases[1].args[1].name = "gamma_ht_0_air_150"

\* ------------------------------------------------------------------- C20
\* key k of the PARAMETERS of the last direct call, d when it was omitted
ParamOr(k, d) == IF k \in DOMAIN unit.PARAMETERS THEN unit.PARAMETERS[k] ELSE d

\* Sw x the real part of pcqsdhc at the grid point g, with the arguments of
\* the last direct call in the positions of pcqsdhc and 0 where z names the
\* position as zeroed
Reduced(z, g) ==
    Scale(ParamOr("Sw", 1),
          pcqsdhc(ParamOr("Nu", 0), ParamOr("GammaD", 0), ParamOr("Gamma0", 0),
                  IF "Gamma2" \in z THEN 0 ELSE ParamOr("Gamma2", 0),
                  ParamOr("Delta0", 0),
                  IF "Delta2" \in z THEN 0 ELSE ParamOr("Delta2", 0),
                  IF "NuVC" \in z THEN 0 ELSE ParamOr("NuVC", 0),
                  IF "Eta" \in z THEN 0 ELSE ParamOr("Eta", 0),
                  g, ParamOr("YRosen", 0)))

\* the positions each pcqsdhc-based adapter fills with zero
Zeroed(profile) ==
    CASE profile = "PROFILE_VOIGT" -> {"Gamma2", "Delta2", "NuVC", "Eta"}
      [] profile = "PROFILE_SDVOIGT" -> {"NuVC", "Eta"}
      [] profile = "PROFILE_SDRAUTIAN" -> {"Eta"}
      [] profile = "PROFILE_HT" -> {}

EvenFrom(x, lower, step) ==
    /\ Len(x) >= 1
    /\ x[1] = lower
    /\ \A k \in 2..Len(x) : x[k] = x[k - 1] + step

\* C21 (as claimed): for lower < upper and step > 0 the array starts at
\* lower, is strictly ascending and evenly spaced, and its last value equals
\* upper.
C21_EndsAtUpper ==
    unit.op = "arange_" =>
        /\ EvenFrom(unit.out, unit.lower, unit.step)
        /\ unit.out[Len(unit.out)] = unit.upper

\* C21 (as the code behaves): the array starts at lower, is strictly
\* ascending and evenly spaced, has floor((upper-lower)/step)+1 points
\* whichever way the quotient was rounded, and its last value is the last
\* node lower + k x step that does not exceed upper: it equals upper exactly
\* when upper - lower is a multiple of step.
C21_LastNodeBelowUpper ==
    unit.op = "arange_" =>
        /\ EvenFrom(unit.out, unit.lower, unit.step)
        /\ Len(unit.out) = ((unit.upper - unit.lower) \div unit.step) + 1
        /\ unit.out[Len(unit.out)] <= unit.upper
        /\ unit.upper - unit.out[Len(unit.out)] < unit.step
        /\ unit.out = arange_(unit.lower, unit.upper, unit.step)

\* the quotient was rounded below a whole number and the end point was
\* restored; upper is a node
C21_Witness ==
    /\ unit.op = "arange_"
    /\ unit.down
    /\ (unit.upper - unit.lower) % unit.step = 0
    /\ Len(unit.out) >= 3
    /\ unit.out[Len(unit.out)] = unit.upper

\* ------------------------------------------------------------------- C22
\* C22: a line of a selected isotopologue is skipped by the intensity filter
\* exactly when its environment-corrected intensity Sw is strictly below
\* IntensityThreshold; for a skipped line no parameter is resolved, no ladder
\* call is made and nothing is added to the output, which stays the sum of
\* the contributions of the processed lines.
C22_ThresholdSkip ==
    /\ \A r \in 1..Len(hist) :
          hist[r].kind # "filtered" =>
              /\ hist[r].kind = "weak" <=> Sw_calc(TransRow(r)) < loc.IntensityThreshold
              /\ hist[r].kind = "weak" =>
                    /\ hist[r].PARAMS = EmptyDict
                    /\ hist[r].calls = << >>
                    /\ hist[r].vals = << >>
    /\ \A k \in 1..Len(Xsect) :
          (k - 1) \notin XsectNaN => Xsect[k] = Contributions(Len(hist), k)

\* with a threshold above 0, a line below it was skipped after a line at
\* the threshold was processed, and the output is that of the first line
C22_Witness ==
    /\ loc # NoLoc /\ loc.IntensityThreshold > 0
    /\ Len(hist) = 2
    /\ hist[1].kind = "add"
    /\ Sw_calc(TransRow(1)) = loc.IntensityThreshold
    /\ hist[2].kind = "weak"
    /\ Sw_calc(TransRow(2)) < loc.IntensityThreshold
    /\ \E k \in 1..Len(Xsect) : Xsect[k] # 0

\* ------------------------------------------------------------------- C23
\* C23: in a call with a WavenumberRange [wn_low, wn_high], a line whose
\* center lies outside the range adds nothing to any element of the output.
C23_OutsideRangeSkipped ==
    (loc # NoLoc /\ args.WavenumberRange.given) =>
        \A r \in 1..Len(hist) :
            (table[r]["nu"] < args.WavenumberRange.v[1]
             \/ table[r]["nu"] > args.WavenumberRange.v[2]) =>
                \/ hist[r].kind \in {"filtered", "weak"}
                \/ \A k \in 1..Len(hist[r].vals) :
                      hist[r].vals[k].v = 0 /\ ~hist[r].vals[k].nan

\* a line centered above the range was processed and added a value that is
\* not 0 to a grid point of the range
C23_Witness ==
    /\ loc # NoLoc /\ args.WavenumberRange.given
    /\ \E r \in 1..Len(hist) :
          /\ table[r]["nu"] > args.WavenumberRange.v[2]
          /\ hist[r].kind = "add"
          /\ \E k \in 1..Len(hist[r].vals) : hist[r].vals[k].v # 0

\* ------------------------------------------------------------------- C24
\* C24: no step of a synthesis call changes the line records: the table
\* holds the same rows with the same columns and values, in the same order,
\* before and after every step, whether the call goes on, returns or raises.
C24_TableUnchanged == [][table' = table]_vars

\* a call on a table of several lines raised inside the row loop
C24_Witness ==
    /\ pc = "done"
    /\ result.exc \notin {"", "none"}
    /\ Len(table) >= 2
    /\ hist # << >>
    /\ hist[Len(hist)].kind = "raise"

\* ------------------------------------------------------------------- C25
\* the number of grid points of the last direct call of pcqsdhc
UnitPoints == IF unit.c2t = 0 THEN Len(unit.Z1) ELSE Len(unit.X)

\* C25: pcqsdhc raises nothing and returns two arrays of as many values as
\* the grid has points, in the degenerate and in the general case, also when
\* the points of the grid fall into more than one computation region.
C25_ShapesMatchGrid ==
    unit.op = "pcqsdhc" =>
        /\ unit.out.exc = ""
        /\ unit.out.re = UnitPoints
        /\ unit.out.im = UnitPoints

\* pcqsdhc raised on a grid with one point in the general region and one in
\* the region next to the line center
C25_Witness ==
    /\ unit.op = "pcqsdhc"
    /\ unit.c2t # 0
    /\ unit.X = << "small", "mid" >>
    /\ ~unit.lenient
    /\ unit.out.exc = "IndexError"

\* ------------------------------------------------------------------- C26
\* C26: in the degenerate case Bterm is, at each grid point, the direct
\* formula where |Z1| <= 4000 and the asymptotic expansion where |Z1| > 4000,
\* also on a grid with points of both kinds.
C26_BtermPerPoint ==
    (unit.op = "pcqsdhc" /\ unit.c2t = 0) =>
        \A k \in 1..Len(unit.Z1) :
            unit.Bterm[k] = IF unit.Z1[k] <= 4000 THEN "direct" ELSE "asymptotic"

\* on a grid with points of both kinds a point with |Z1| <= 4000 was left
\* with the asymptotic expansion
C26_Witness ==
    /\ unit.op = "pcqsdhc" /\ unit.c2t = 0
    /\ \E j, k \in 1..Len(unit.Z1) :
          /\ unit.Z1[j] <= 4000 /\ unit.Z1[k] > 4000
          /\ unit.Bterm[j] = "asymptotic"

\* ------------------------------------------------------------------- C27
\* what calcpars did for row r of the call in progress
CalcOf(r) ==
    CallCalcpars(args.calcpars, TransRow(r),
                 IF abscoef_debug THEN CalcInfoDict ELSE CalcInfoNone,
                 loc.exclude, abscoef_debug)

\* the parameters named in S stand before position i of the order
Before(order, i, S) == S \subseteq {order[j] : j \in 1..(i - 1)}

\* CALC_INFO holds the total of each parameter of S and, for each of M, its
\* value for every species of the diluent
Recorded(CALC_INFO, S, M) ==
    /\ \A n \in S : HasValue(CALC_INFO, n)
    /\ \A n \in M : \A k \in 1..Len(loc.Diluent) :
          HasMixture(CALC_INFO, n, loc.Diluent[k].species)

\* C27: in HT and FullPriority parameter resolution, for every line and
\* every exclude set, Eta is computed only after Gamma2 and Delta2, NuVC only
\* after Gamma0, Delta0 and Eta, and whenever Eta or NuVC is computed with a
\* CALC_INFO dict the totals and the per-species values it reads are
\* recorded in it.
C27_ReadsRecorded ==
    (loc # NoLoc /\ args.calcpars \in {"HT", "FullPriority"}) =>
        \A r \in 1..Len(hist) :
            hist[r].kind \in {"add", "raise"} =>
                \A i \in 1..Len(CalcOf(r).order) :
                    /\ CalcOf(r).order[i] = "Eta" =>
                          /\ Before(CalcOf(r).order, i, {"Gamma2", "Delta2"})
                          /\ (abscoef_debug /\ "Eta" \notin loc.exclude) =>
                                Recorded(CalcOf(r).CALC_INFO, {"Gamma2", "Delta2"},
                                         {"Gamma2", "Delta2"})
                    /\ CalcOf(r).order[i] = "NuVC" =>
                          /\ Before(CalcOf(r).order, i, {"Gamma0", "Delta0", "Eta"})
                          /\ (abscoef_debug /\ "NuVC" \notin loc.exclude) =>
                                Recorded(CalcOf(r).CALC_INFO, {"Gamma0", "Delta0", "Eta"},
                                         {"Gamma0", "Delta0"})

\* Eta was computed with tracing on and Delta2 excluded, and raised KeyError
C27_Witness ==
    /\ loc # NoLoc /\ args.calcpars = "HT" /\ abscoef_debug
    /\ "Delta2" \in loc.exclude /\ "Eta" \notin loc.exclude
    /\ hist # << >>
    /\ hist[Len(hist)].kind = "raise"
    /\ hist[Len(hist)].exc = "KeyError"

\* ------------------------------------------------------------------- C28
\* C28: PROFILE_RAUTIAN, called with Nu, GammaD, Gamma0, Delta0, NuVC and the
\* grid, with or without the line-mixing coefficient under the keyword
\* YRosen (default 0), returns Sw x the real part of pcqsdhc(Nu, GammaD,
\* Gamma0, 0, Delta0, 0, NuVC, 0, grid, Ylm = coefficient).
C28_RautianReduced ==
    (/\ unit.op = "profile"
     /\ unit.profile = "PROFILE_RAUTIAN"
     /\ ProfileRequired("PROFILE_RAUTIAN") \subseteq DOMAIN unit.PARAMETERS
     /\ DOMAIN unit.PARAMETERS \subseteq ProfileRequired("PROFILE_RAUTIAN") \cup {"YRosen", "Sw"}) =>
        /\ unit.out.exc = ""
        /\ Len(unit.out.vals) = Len(unit.PARAMETERS["WnGrid"])
        /\ \A k \in 1..Len(unit.out.vals) :
              unit.out.vals[k] = Reduced({"Gamma2", "Delta2", "Eta"}, unit.PARAMETERS["WnGrid"][k])

\* PROFILE_RAUTIAN was called with what it requires and a non-zero
\* coefficient under the keyword YRosen, and raised TypeError
C28_Witness ==
    /\ unit.op = "profile"
    /\ unit.profile = "PROFILE_RAUTIAN"
    /\ DOMAIN unit.PARAMETERS = ProfileRequired("PROFILE_RAUTIAN") \cup {"YRosen"}
    /\ unit.PARAMETERS["YRosen"] # 0
    /\ unit.out.exc = "TypeError"

\* ------------------------------------------------------------------- C29
\* C29: for every entry of the PRESSURE_INDUCED_ENVDEP registry, whenever all
\* arguments of its selector resolve, the names in ARGS (the selector's
\* abstract names with T, T_ref, p, p_ref) are exactly the parameter names of
\* the entry's dependence law, depfunc(**ARGS) succeeds and the preset
\* yields the law's value.
C29_LawTakesSelectorArgs ==
    (unit.op = "preset" /\ unit.got.ok) =>
        /\ DOMAIN unit.got.ARGS = DepFuncParams(unit.depfunc)
        /\ unit.out.winner = 1
        /\ unit.out.INFO.status = NoStatus
        /\ unit.out.value = DepFuncValue(unit.depfunc, unit.got.ARGS)

\* the Lorentz YRosen preset on a line with y_air and n_y_air: the selector
\* resolved and the ladder returned 0 with a TypeError status
C29_Witness ==
    /\ unit.op = "preset"
    /\ unit.profile = "Lorentz" /\ unit.parname = "YRosen"
    /\ "y_air" \in DOMAIN unit.TRANS
    /\ unit.got.ok
    /\ unit.got.ARGS["Par_ref"] # 0
    /\ unit.out.winner = 0
    /\ unit.out.value = 0
    /\ unit.out.INFO.status.exc = "TypeError"

\* ------------------------------------------------------------------- C30
\* what calculateProfileParametersVoigt resolves for row r under the exclude
\* set of the call in progress
VoigtOf(r) == CallCalcpars("Voigt", TransRow(r), CalcInfoNone, loc.exclude, FALSE)

\* the row has the standard Voigt columns and no HT-specific one
StandardVoigt(row) == "gamma_air" \in DOMAIN row /\ DOMAIN row \subseteq DOMAIN LineVoigt

\* C30: with line mixing off and debug tracing off, for a line that has only
\* the standard Voigt columns, calculateProfileParametersHT resolves the
\* same Nu, Sw, GammaD, Gamma0 and Delta0 as calculateProfileParametersVoigt
\* and Gamma2 = Delta2 = Eta = NuVC = 0.
C30_HTFallsBackToVoigt ==
    (loc # NoLoc /\ args.calcpars = "HT" /\ ~args.LineMixingRosen /\ ~abscoef_debug) =>
        \A r \in 1..Len(hist) :
            (StandardVoigt(table[r]) /\ hist[r].kind \notin {"weak", "filtered"}) =>
                /\ hist[r].exc = ""
                /\ VoigtOf(r).exc = ""
                /\ \A k \in {"Nu", "Sw", "GammaD", "Gamma0", "Delta0"} :
                      hist[r].PARAMS[k] = VoigtOf(r).PARAMS[k]
                /\ \A k \in {"Gamma2", "Delta2", "Eta", "NuVC"} : hist[r].PARAMS[k] = 0

\* an HT call without line mixing and tracing resolved a Voigt-only line in
\* a self diluent to a non-zero width and shift
C30_Witness ==
    /\ loc # NoLoc /\ args.calcpars = "HT" /\ ~args.LineMixingRosen /\ ~abscoef_debug
    /\ hist # << >>
    /\ StandardVoigt(table[Len(hist)])
    /\ hist[Len(hist)].kind = "add"
    /\ hist[Len(hist)].PARAMS["Gamma0"] # 0
    /\ hist[Len(hist)].PARAMS["Delta0"] # 0

====
